---- MODULE Spec2Model ----
(***************************************************************************)
(* Model of the chat backend of the AI fitness coach: the /api/chat        *)
(* handler of server.js, its intent classifiers, the allergen checker      *)
(* checkMealForAllergens and the meal-suggestion block.  Strings are TLC   *)
(* strings, examined character by character as the JavaScript does.        *)
(***************************************************************************)
EXTENDS Integers, Sequences, FiniteSets, TLC

(***************************************************************************)
(* Strings: String.prototype.toLowerCase, includes, trim.                  *)
(***************************************************************************)
LowerLetters == "abcdefghijklmnopqrstuvwxyz"
UpperLetters == "ABCDEFGHIJKLMNOPQRSTUVWXYZ"

CharAt(s, i) == SubSeq(s, i, i)

LowerSet == {CharAt(LowerLetters, i) : i \in 1..Len(LowerLetters)}
UpperSet == {CharAt(UpperLetters, i) : i \in 1..Len(UpperLetters)}
DigitSet == {"0", "1", "2", "3", "4", "5", "6", "7", "8", "9"}

\* \w of a JavaScript regular expression
WordChars == LowerSet \cup UpperSet \cup DigitSet \cup {"_"}
\* \s, as far as the messages of the model go
SpaceChars == {" "}

LowerChar(c) ==
  IF c \in UpperSet
    THEN CharAt(LowerLetters, CHOOSE i \in 1..Len(UpperLetters) : CharAt(UpperLetters, i) = c)
    ELSE c

RECURSIVE LowerFrom(_, _)
LowerFrom(s, i) ==
  IF i > Len(s) THEN "" ELSE LowerChar(CharAt(s, i)) \o LowerFrom(s, i + 1)

\* s.toLowerCase(); here and in Includes, Trim and Match the arguments are
\* bound to their values first, so that they are evaluated once
ToLowerCase(s) == CHOOSE lower \in {LowerFrom(t, 1) : t \in {s}} : TRUE

\* s.includes(t)
Includes(s, t) ==
  \E u \in {s}, v \in {t} :
    \E i \in 1..(Len(u) - Len(v) + 1) : SubSeq(u, i, i + Len(v) - 1) = v

RECURSIVE TrimStart(_)
TrimStart(s) ==
  IF Len(s) > 0 /\ CharAt(s, 1) \in SpaceChars THEN TrimStart(SubSeq(s, 2, Len(s))) ELSE s

RECURSIVE TrimEnd(_)
TrimEnd(s) ==
  IF Len(s) > 0 /\ CharAt(s, Len(s)) \in SpaceChars THEN TrimEnd(SubSeq(s, 1, Len(s) - 1)) ELSE s

Trim(s) == CHOOSE trimmed \in {TrimEnd(TrimStart(t)) : t \in {s}} : TRUE

\* the literal v stands in s at position i
StartsAt(s, i, v) ==
  /\ i + Len(v) - 1 <= Len(s)
  /\ SubSeq(s, i, i + Len(v) - 1) = v

(***************************************************************************)
(* Regular expressions.  A pattern is a sequence of elements:              *)
(*   Lit(v)       the literal v                                            *)
(*   Alt(vs)      (?:v1|v2|...)   ordered alternatives, not captured       *)
(*   Grp(vs)      (v1|v2|...)     ordered alternatives, captured           *)
(*   Cls(set)     ([...]+)        greedy run of a character class, captured*)
(*   Rep(vs)      (?:v1|v2|...|)+ greedy repetition of alternatives        *)
(* An optional group (x)? is the group with the empty alternative last.    *)
(* Matching is the backtracking search of the JavaScript engine: leftmost  *)
(* start, alternatives in order, longest run first.                        *)
(***************************************************************************)
Lit(v) == [t |-> "lit", v |-> v]
Alt(vs) == [t |-> "alt", vs |-> vs, cap |-> FALSE]
Grp(vs) == [t |-> "alt", vs |-> vs, cap |-> TRUE]
Cls(set) == [t |-> "cls", set |-> set]
Rep(vs) == [t |-> "rep", vs |-> vs]

\* [\w\s\-] and [\w\s]
WordSpaceHyphen == WordChars \cup SpaceChars \cup {"-"}
WordSpace == WordChars \cup SpaceChars

NoMatch == [ok |-> FALSE, caps |-> <<>>]

RECURSIVE RunLen(_, _, _)
RunLen(s, i, set) ==
  IF i <= Len(s) /\ CharAt(s, i) \in set THEN 1 + RunLen(s, i + 1, set) ELSE 0

RECURSIVE MatchFrom(_, _, _, _, _)
RECURSIVE TryAlts(_, _, _, _, _, _)
RECURSIVE TryRun(_, _, _, _, _, _)
RECURSIVE TryRep(_, _, _, _, _, _)

MatchFrom(pat, k, s, i, caps) ==
  IF k > Len(pat) THEN [ok |-> TRUE, caps |-> caps]
  ELSE LET e == pat[k] IN
    CASE e.t = "lit" ->
           IF StartsAt(s, i, e.v) THEN MatchFrom(pat, k + 1, s, i + Len(e.v), caps)
                                  ELSE NoMatch
      [] e.t = "alt" -> TryAlts(pat, k, s, i, caps, 1)
      [] e.t = "cls" -> TryRun(pat, k, s, i, caps, RunLen(s, i, e.set))
      [] e.t = "rep" -> TryRep(pat, k, s, i, caps, 1)

TryAlts(pat, k, s, i, caps, a) ==
  LET e == pat[k] IN
  IF a > Len(e.vs) THEN NoMatch
  ELSE IF StartsAt(s, i, e.vs[a])
    THEN LET r == MatchFrom(pat, k + 1, s, i + Len(e.vs[a]),
                            IF e.cap THEN Append(caps, e.vs[a]) ELSE caps)
         IN IF r.ok THEN r ELSE TryAlts(pat, k, s, i, caps, a + 1)
    ELSE TryAlts(pat, k, s, i, caps, a + 1)

TryRun(pat, k, s, i, caps, n) ==
  IF n < 1 THEN NoMatch
  ELSE LET r == MatchFrom(pat, k + 1, s, i + n, Append(caps, SubSeq(s, i, i + n - 1)))
       IN IF r.ok THEN r ELSE TryRun(pat, k, s, i, caps, n - 1)

TryRep(pat, k, s, i, caps, a) ==
  LET e == pat[k] IN
  IF a > Len(e.vs) THEN MatchFrom(pat, k + 1, s, i, caps)
  ELSE IF StartsAt(s, i, e.vs[a])
    THEN LET r == MatchFrom(pat, k, s, i + Len(e.vs[a]), caps)
         IN IF r.ok THEN r ELSE TryRep(pat, k, s, i, caps, a + 1)
    ELSE TryRep(pat, k, s, i, caps, a + 1)

RECURSIVE SearchFrom(_, _, _)
SearchFrom(pat, s, i) ==
  IF i > Len(s) + 1 THEN NoMatch
  ELSE LET r == MatchFrom(pat, 1, s, i, <<>>)
       IN IF r.ok THEN r ELSE SearchFrom(pat, s, i + 1)

\* s.match(pattern): the captures of the leftmost match, or no match
Match(pat, s) == CHOOSE m \in {SearchFrom(p, t, 1) : p \in {pat}, t \in {s}} : TRUE

\* pattern.test(s)
Test(pat, s) == Match(pat, s).ok

\* patterns.some(pattern => pattern.test(s))
SomeTest(pats, s) == \E p \in 1..Len(pats) : Test(pats[p], s)

\* the elements of a list
Range(list) == {list[k] : k \in 1..Len(list)}

(***************************************************************************)
(* Values of the JavaScript: null, and the truth of a string in a test.   *)
(***************************************************************************)
Null == "<null>"

\* if (x) for x a string or null
Truthy(x) == x # Null /\ x # ""

MealTimeWords == <<"breakfast", "lunch", "dinner", "snack">>

(***************************************************************************)
(* The intent classifiers of server.js.                                    *)
(***************************************************************************)
nutritionPatterns == <<
  <<Lit("what"), Alt(<<"'s", " is", " are">>), Lit(" the nutrition"),
    Alt(<<" information", " facts", " data", "">>), Lit(" "), Alt(<<"for", "of">>),
    Lit(" "), Cls(WordSpace)>>,
  <<Lit("nutrition"), Alt(<<" information", " facts", " data", "">>), Lit(" "),
    Alt(<<"for", "of">>), Lit(" "), Cls(WordSpace)>>,
  <<Lit("how many calories "), Rep(<<"are ", "is ", "does ", "in ">>), Cls(WordSpace)>>,
  <<Alt(<<"calories", "protein", "carbs", "fat">>), Lit(" in "), Cls(WordSpace)>>,
  <<Lit("what"), Alt(<<"'s", " is", " are">>), Lit(" the "),
    Alt(<<"calories", "protein", "carbs", "fat">>), Lit(" "), Alt(<<"for", "of", "in">>),
    Lit(" "), Cls(WordSpace)>>,
  <<Lit("tell me "), Alt(<<"about ", "the ", "">>), Alt(<<"nutrition", "calories", "macros">>),
    Lit(" "), Alt(<<"for ", "of ", "in ", "">>), Cls(WordSpace)>> >>

isNutritionQuery(message) == SomeTest(nutritionPatterns, ToLowerCase(message))

RECURSIVE ExtractMealNameFrom(_, _)
ExtractMealNameFrom(messageLower, p) ==
  IF p > Len(nutritionPatterns) THEN Null
  ELSE LET match == Match(nutritionPatterns[p], messageLower)
       IN IF match.ok /\ Truthy(match.caps[1]) THEN Trim(match.caps[1])
          ELSE ExtractMealNameFrom(messageLower, p + 1)

extractMealName(message) == ExtractMealNameFrom(ToLowerCase(message), 1)

\* each pattern with its source text, which the extraction inspects
mealSafetyPatterns == <<
  [src |-> "can i (eat|have|consume|try) ([\\w\\s\\-]+)(\\?)?",
   re |-> <<Lit("can i "), Grp(<<"eat", "have", "consume", "try">>), Lit(" "),
            Cls(WordSpaceHyphen), Grp(<<"?", "">>)>>],
  [src |-> "is ([\\w\\s\\-]+) safe for me(\\?)?",
   re |-> <<Lit("is "), Cls(WordSpaceHyphen), Lit(" safe for me"), Grp(<<"?", "">>)>>],
  [src |-> "should i avoid ([\\w\\s\\-]+)(\\?)?",
   re |-> <<Lit("should i avoid "), Cls(WordSpaceHyphen), Grp(<<"?", "">>)>>],
  [src |-> "am i allergic to ([\\w\\s\\-]+)(\\?)?",
   re |-> <<Lit("am i allergic to "), Cls(WordSpaceHyphen), Grp(<<"?", "">>)>>],
  [src |-> "will ([\\w\\s\\-]+) cause (an|a) (allergic reaction|allergy)(\\?)?",
   re |-> <<Lit("will "), Cls(WordSpaceHyphen), Lit(" cause "), Grp(<<"an", "a">>), Lit(" "),
            Grp(<<"allergic reaction", "allergy">>), Grp(<<"?", "">>)>>],
  [src |-> "is it safe for me to eat ([\\w\\s\\-]+)(\\?)?",
   re |-> <<Lit("is it safe for me to eat "), Cls(WordSpaceHyphen), Grp(<<"?", "">>)>>],
  [src |-> "is ([\\w\\s\\-]+) ok with my allergies(\\?)?",
   re |-> <<Lit("is "), Cls(WordSpaceHyphen), Lit(" ok with my allergies"), Grp(<<"?", "">>)>>] >>

isMealSafetyQuestion(message) ==
  \E p \in 1..Len(mealSafetyPatterns) : Test(mealSafetyPatterns[p].re, ToLowerCase(message))

\* the capture group the extraction reads for a pattern, 0 when no branch of
\* the if-chain on pattern.toString() applies
SafetyCaptureGroup(src) ==
  IF Includes(src, "can i (eat|have|consume|try)") THEN 2
  ELSE IF Includes(src, "is (") THEN 1
  ELSE IF Includes(src, "should i avoid") THEN 1
  ELSE IF Includes(src, "am i allergic to") THEN 1
  ELSE IF Includes(src, "will (") THEN 1
  ELSE IF Includes(src, "safe for me to eat") THEN 1
  ELSE 0

RECURSIVE ExtractSafetyFrom(_, _)
ExtractSafetyFrom(messageLower, p) ==
  IF p > Len(mealSafetyPatterns) THEN Null
  ELSE LET match == Match(mealSafetyPatterns[p].re, messageLower)
           g == SafetyCaptureGroup(mealSafetyPatterns[p].src)
       IN IF match.ok /\ g > 0 THEN Trim(match.caps[g])
          ELSE ExtractSafetyFrom(messageLower, p + 1)

extractMealNameFromSafetyQuestion(message) == ExtractSafetyFrom(ToLowerCase(message), 1)

mealSuggestionPatterns == <<
  <<Lit("what "), Grp(<<"should", "can", "could">>), Lit(" i "), Grp(<<"eat", "have">>),
    Lit(" for "), Grp(MealTimeWords)>>,
  <<Lit("suggest "), Grp(<<"a", "some">>), Lit(" "), Grp(MealTimeWords)>>,
  <<Lit("recommend "), Grp(<<"a", "some">>), Lit(" "), Grp(<<"meal", "food">>), Lit(" for "),
    Grp(MealTimeWords)>>,
  <<Grp(MealTimeWords), Lit(" "), Grp(<<"suggestion", "recommendation", "idea">>)>>,
  <<Lit("what"), Grp(<<"'s", " is">>), Lit(" "), Grp(<<"a good", "healthy">>), Lit(" "),
    Grp(MealTimeWords)>>,
  <<Lit("what "), Grp(MealTimeWords), Lit(" "), Grp(<<"should", "can", "could">>), Lit(" i "),
    Grp(<<"eat", "have">>)>> >>

isMealSuggestionQuery(message) == SomeTest(mealSuggestionPatterns, ToLowerCase(message))

RECURSIVE ExtractMealTimeFrom(_, _)
ExtractMealTimeFrom(messageLower, k) ==
  IF k > Len(MealTimeWords) THEN Null
  ELSE IF Includes(messageLower, MealTimeWords[k]) THEN MealTimeWords[k]
  ELSE ExtractMealTimeFrom(messageLower, k + 1)

extractMealTime(message) == ExtractMealTimeFrom(ToLowerCase(message), 1)

workoutPatterns == <<
  <<Lit("workout for "), Cls(WordSpace)>>,
  <<Lit("exercise"), Alt(<<"s", "">>), Lit(" for "), Cls(WordSpace)>>,
  <<Lit("how "), Grp(<<"to", "do i", "can i", "should i">>), Lit(" "),
    Grp(<<"train", "work", "exercise">>), Lit(" "), Grp(<<"my ", "">>), Cls(WordSpace)>>,
  <<Lit("what "), Grp(<<"exercises", "exercise", "workout", "training">>), Lit(" "),
    Grp(<<"for", "to">>), Lit(" "), Cls(WordSpace)>>,
  <<Grp(<<"recommend", "suggest">>), Lit(" "), Grp(<<"a", "some">>), Lit(" "),
    Grp(<<"exercises", "exercise", "workout">>), Lit(" for "), Cls(WordSpace)>>,
  <<Lit("help me "), Grp(<<"train", "build", "tone", "strengthen">>), Lit(" "),
    Grp(<<"my ", "">>), Cls(WordSpace)>>,
  <<Lit("best "), Grp(<<"exercises", "exercise", "workout", "training">>), Lit(" for "),
    Cls(WordSpace)>>,
  <<Lit("how "), Grp(<<"to", "do i", "can i">>), Lit(" "),
    Grp(<<"gain muscle", "lose weight", "get stronger", "build strength">>)>>,
  <<Lit("what "), Grp(<<"should", "can">>), Lit(" i do "), Grp(<<"at", "in">>), Lit(" "),
    Grp(<<"the ", "">>), Grp(<<"gym", "home", "outdoors">>)>>,
  <<Lit("workout plan")>>,
  <<Lit("training "), Grp(<<"plan", "program", "routine", "schedule">>)>>,
  <<Lit("fitness "), Grp(<<"plan", "program", "routine", "schedule">>)>>,
  <<Lit("my "), Grp(<<"workout", "exercise", "training">>), Lit(" "), Grp(<<"plan", "routine">>)>> >>

isWorkoutQuery(message) == SomeTest(workoutPatterns, ToLowerCase(message))

exercisePatterns == <<
  [src |-> "how (to|do i) do (a |an )?([\\w\\s\\-]+)",
   re |-> <<Lit("how "), Grp(<<"to", "do i">>), Lit(" do "), Grp(<<"a ", "an ", "">>),
            Cls(WordSpaceHyphen)>>],
  [src |-> "correct form for ([\\w\\s\\-]+)",
   re |-> <<Lit("correct form for "), Cls(WordSpaceHyphen)>>],
  [src |-> "technique for ([\\w\\s\\-]+)",
   re |-> <<Lit("technique for "), Cls(WordSpaceHyphen)>>],
  [src |-> "proper way to do ([\\w\\s\\-]+)",
   re |-> <<Lit("proper way to do "), Cls(WordSpaceHyphen)>>],
  [src |-> "form check for ([\\w\\s\\-]+)",
   re |-> <<Lit("form check for "), Cls(WordSpaceHyphen)>>],
  [src |-> "is my ([\\w\\s\\-]+) form correct",
   re |-> <<Lit("is my "), Cls(WordSpaceHyphen), Lit(" form correct")>>],
  [src |-> "what muscles does ([\\w\\s\\-]+) work",
   re |-> <<Lit("what muscles does "), Cls(WordSpaceHyphen), Lit(" work")>>],
  [src |-> "what are the benefits of ([\\w\\s\\-]+)",
   re |-> <<Lit("what are the benefits of "), Cls(WordSpaceHyphen)>>],
  [src |-> "is ([\\w\\s\\-]+) good for ([\\w\\s\\-]+)",
   re |-> <<Lit("is "), Cls(WordSpaceHyphen), Lit(" good for "), Cls(WordSpaceHyphen)>>],
  [src |-> "alternative to ([\\w\\s\\-]+)",
   re |-> <<Lit("alternative to "), Cls(WordSpaceHyphen)>>],
  [src |-> "replace ([\\w\\s\\-]+) with",
   re |-> <<Lit("replace "), Cls(WordSpaceHyphen), Lit(" with")>>] >>

isSpecificExerciseQuery(message) ==
  \E p \in 1..Len(exercisePatterns) : Test(exercisePatterns[p].re, ToLowerCase(message))

RECURSIVE ExtractExerciseFrom(_, _)
ExtractExerciseFrom(messageLower, p) ==
  IF p > Len(exercisePatterns) THEN Null
  ELSE LET match == Match(exercisePatterns[p].re, messageLower)
           \* match.length - (2 or 1), match[0] being the whole match
           g == Len(match.caps) + 1 - (IF Includes(exercisePatterns[p].src, "good for") THEN 2 ELSE 1)
       IN IF match.ok THEN Trim(match.caps[g])
          ELSE ExtractExerciseFrom(messageLower, p + 1)

extractExerciseName(message) == ExtractExerciseFrom(ToLowerCase(message), 1)

\* the strings the anchored greeting patterns accept
greetingPatterns ==
  {"hi", "hello", "hey", "hi there", "hello there", "greetings",
   "good morning", "good afternoon", "good evening", "what's up", "whats up",
   "yo", "howdy", "hola", "bonjour", "sup", "start"}

isGreeting(message) == Trim(ToLowerCase(message)) \in greetingPatterns

(***************************************************************************)
(* Data the handler reads: the profile store (Firebase), the meal catalog  *)
(* (data/meals_nutrition.json) and the replies of the recipe service.      *)
(***************************************************************************)
\* a value of a profile list that is not a string (a number stored in the
\* database): toLowerCase is not a function of it
NotAString == "<number>"

IsString(v) == v # NotAString /\ v # Null

\* getUserData resolved to null
NoProfile ==
  [exists |-> FALSE, firstName |-> "", hasBodyData |-> FALSE,
   allergies |-> <<>>, foodLikes |-> <<>>, foodDislikes |-> <<>>]

Profile(name, allergies, likes, dislikes) ==
  [exists |-> TRUE, firstName |-> name, hasBodyData |-> TRUE,
   allergies |-> allergies, foodLikes |-> likes, foodDislikes |-> dislikes]

\* a user without a mealDistribution table
NoDistribution == [mealTime \in {} |-> <<>>]

NoNutritionData ==
  [exists |-> FALSE, dailyCalories |-> 0, dailyProtein |-> 0, dailyCarbs |-> 0, dailyFat |-> 0,
   mealDistribution |-> NoDistribution]

\* users/{userId}/nutritionData; the fractions of mealDistribution in hundredths
NutritionData(cal, pro, carb, fat, mealDistribution) ==
  [exists |-> TRUE, dailyCalories |-> cal, dailyProtein |-> pro, dailyCarbs |-> carb, dailyFat |-> fat,
   mealDistribution |-> mealDistribution]

\* users/{userId} of the database; u0 is not stored
StoredUsers == {"u1", "u2", "u3", "u4", "u5"}

\* a user without workoutData
NoWorkoutData ==
  [exists |-> FALSE, fitnessLevel |-> "", fitnessGoal |-> "", muscleGroups |-> <<>>,
   equipment |-> <<>>]

\* users/{userId}/workoutData
WorkoutData(fitnessLevel, fitnessGoal, groups, equipment) ==
  [exists |-> TRUE, fitnessLevel |-> fitnessLevel, fitnessGoal |-> fitnessGoal,
   muscleGroups |-> groups, equipment |-> equipment]

WorkoutDataOf(u) ==
  CASE u = "u1" -> WorkoutData("Intermediate", "Muscle gain", <<"Arms", "Chest", "Arms">>,
                               <<"Dumbbells", "Machines">>)
    [] u = "u2" -> WorkoutData("Beginner", "Weight loss", <<>>, <<>>)
    [] u = "u3" -> NoWorkoutData
    [] u = "u4" -> WorkoutData("Advanced", "Endurance", <<"Legs", "Glutes">>,
                               <<"Machines", "Kettlebells">>)
    [] u = "u5" -> WorkoutData("Beginner", "Muscle gain", <<"Neck">>, <<"Yoga mat">>)

Users ==
  [u \in StoredUsers |->
     [workoutData |-> WorkoutDataOf(u)] @@
     CASE u = "u1" -> [profile |-> Profile("Ana", <<>>, <<"rice">>, <<>>),
                       nutritionData |->
                         NutritionData(1800, 90, 200, 50,
                           [breakfast |-> [calories |-> 50, protein |-> 65, carbs |-> 20, fat |-> 60]])]
       [] u = "u2" -> [profile |-> Profile("Ben", <<"Peanut">>, <<"Omelette">>,
                                           <<"toast", "Chicken Salad Sandwich">>),
                       nutritionData |-> NutritionData(2000, 100, 200, 60, NoDistribution)]
       [] u = "u3" -> [profile |-> Profile("", <<"nut", "peanut", "Eggs">>, <<>>, <<>>),
                       nutritionData |-> NoNutritionData]
       [] u = "u4" -> [profile |-> Profile("Dee", <<NotAString>>, <<>>, <<>>),
                       nutritionData |-> NutritionData(2000, 100, 200, 60, NoDistribution)]
       [] u = "u5" -> [profile |-> Profile("Eve", <<>>, <<"rice">>, <<>>),
                       nutritionData |-> NutritionData(2000, 100, 200, 60, NoDistribution)]]

\* the userId of a request body: absent, unknown to the store, or stored
UserIds == {"", "u0"} \cup StoredUsers

Meal(name, cal, pro, carb, fat) ==
  [strMeal |-> name, hasNutrition |-> TRUE,
   nutrition |-> [calories |-> cal, protein |-> pro, carbs |-> carb, fat |-> fat]]

\* an entry of the catalog without a nutrition object
MealWithoutNutrition(name) ==
  [strMeal |-> name, hasNutrition |-> FALSE,
   nutrition |-> [calories |-> 0, protein |-> 0, carbs |-> 0, fat |-> 0]]

\* data/meals_nutrition.json
Catalog == <<
  Meal("Fried Rice", 500, 25, 60, 15),
  Meal("Peanut Butter Toast", 480, 24, 55, 16),
  Meal("Egg Omelette", 520, 27, 62, 14),
  Meal("Rice Pudding", 510, 23, 64, 15),
  Meal("Beef Stew", 900, 60, 40, 30),
  MealWithoutNutrition("Plain Broth"),
  Meal("Chicken Salad", 575, 28, 69, 17),
  Meal("Veggie Rice Bowl", 425, 22, 51, 13),
  Meal("Oat Porridge", 500, 25, 60, 18),
  Meal("Turkey Wrap", 805, 35, 70, 21) >>

\* what axios.get of the recipe search can come back with
NoReply == [kind |-> "none", ingredients |-> <<>>]

Replies ==
  { [kind |-> "error", ingredients |-> <<>>],        \* the request failed
    [kind |-> "nomeals", ingredients |-> <<>>],      \* { meals: null }
    [kind |-> "malformed", ingredients |-> <<>>],    \* { meals: [null] }
    [kind |-> "meal", ingredients |-> <<"Rice", "Soy Sauce", "">>],
    [kind |-> "meal", ingredients |-> <<"Peanut Oil", "Walnut", "Bread">>],
    [kind |-> "meal", ingredients |-> <<"Egg", " ", "Butter">>] }

(***************************************************************************)
(* checkMealForAllergens                                                   *)
(***************************************************************************)
Result(safe, allergens, ingredients, message) ==
  [safe |-> safe, allergens |-> allergens, ingredients |-> ingredients, message |-> message]

NoResult == Result("none", <<>>, <<>>, "none")

\* DirectAllergens comparing without lower-casing
DirectAllergensCaseSensitive(mealName, userAllergies) ==
  SelectSeq(userAllergies, LAMBDA allergen : Includes(mealName, allergen))

\* the direct-name loop: the allergens the meal name itself contains
DirectAllergens(mealName, userAllergies) ==
  SelectSeq(userAllergies, LAMBDA allergen : Includes(ToLowerCase(mealName), ToLowerCase(allergen)))

\* the direct-name loop throws: toLowerCase of a value that is not a string
DirectThrows(mealName, userAllergies) ==
  \/ ~IsString(mealName)
  \/ \E k \in 1..Len(userAllergies) : ~IsString(userAllergies[k])

\* TechnicalError answering unverifiable instead of unsafe
TechnicalErrorUnverifiable(userAllergies) == Result("null", <<>>, <<>>, "could not verify")

\* the technical-error result of the outer catch
TechnicalError(userAllergies) == Result("false", userAllergies, <<>>, "technical error")

\* the result when no recipe could be examined
Unverifiable == Result("null", <<>>, <<>>, "could not verify")

\* CheckBeforeLookup without the early return for an empty allergen list
CheckBeforeLookupNoEarlyReturn(mealName, userAllergies) ==
  IF DirectThrows(mealName, userAllergies) THEN TechnicalError(userAllergies)
  ELSE IF Len(DirectAllergens(mealName, userAllergies)) > 0
    THEN Result("false", DirectAllergens(mealName, userAllergies), <<>>, "directly contains")
  ELSE NoResult

\* the part of the function before the recipe request: the result it returns
\* at once, or NoResult when the request is to be issued
CheckBeforeLookup(mealName, userAllergies) ==
  IF Len(userAllergies) = 0 THEN Result("true", <<>>, <<>>, "none")
  ELSE IF DirectThrows(mealName, userAllergies) THEN TechnicalError(userAllergies)
  ELSE IF Len(DirectAllergens(mealName, userAllergies)) > 0
    THEN Result("false", DirectAllergens(mealName, userAllergies), <<>>, "directly contains")
  ELSE NoResult

\* strIngredient1..20 of the meal, the empty ones dropped, in lower case
ExtractIngredients(raw) ==
  LET kept == SelectSeq(raw, LAMBDA ingredient : Truthy(ingredient) /\ Truthy(Trim(ingredient)))
  IN [i \in 1..Len(kept) |-> ToLowerCase(kept[i])]

\* IngredientHit testing one direction only
IngredientHitOneWay(ingredient, allergen) == Includes(ingredient, ToLowerCase(allergen))

IngredientHit(ingredient, allergen) ==
  \/ Includes(ingredient, ToLowerCase(allergen))
  \/ Includes(ToLowerCase(allergen), ingredient)

\* foundAllergens: the pairs in the order of the two nested loops
RECURSIVE FoundAllergensFrom(_, _, _, _)
FoundAllergensFrom(ingredients, userAllergies, i, a) ==
  IF i > Len(ingredients) THEN <<>>
  ELSE IF a > Len(userAllergies) THEN FoundAllergensFrom(ingredients, userAllergies, i + 1, 1)
  ELSE (IF IngredientHit(ingredients[i], userAllergies[a])
          THEN <<[allergen |-> userAllergies[a], ingredient |-> ingredients[i]]>>
          ELSE <<>>)
       \o FoundAllergensFrom(ingredients, userAllergies, i, a + 1)

FoundAllergens(ingredients, userAllergies) == FoundAllergensFrom(ingredients, userAllergies, 1, 1)

\* [...new Set(list)]: first occurrences, in order
RECURSIVE Unique(_)
Unique(list) ==
  IF Len(list) = 0 THEN <<>>
  ELSE LET front == Unique(SubSeq(list, 1, Len(list) - 1))
           last == list[Len(list)]
       IN IF \E k \in 1..Len(front) : front[k] = last THEN front ELSE Append(front, last)

\* lines 236-274: the ingredients of the meal found against the allergens
CheckIngredients(mealName, userAllergies, reply) ==
  LET found == FoundAllergens(ExtractIngredients(reply.ingredients), userAllergies)
  IN IF Len(found) > 0
       THEN Result("false",
                   Unique([k \in 1..Len(found) |-> found[k].allergen]),
                   [k \in 1..Len(found) |-> found[k].ingredient],
                   "contains ingredients")
       ELSE Result("true", <<>>, <<>>, "appears safe")

\* CheckAfterLookup taking a reply without a meal for a safe meal
CheckAfterLookupFailOpen(mealName, userAllergies, reply) ==
  IF reply.kind = "meal" THEN CheckIngredients(mealName, userAllergies, reply)
  ELSE IF reply.kind = "nomeals" THEN Result("true", <<>>, <<>>, "appears safe")
  ELSE Unverifiable

\* CheckAfterLookup without the inner catch: a failed request reaches the
\* outer catch
CheckAfterLookupErrorUnsafe(mealName, userAllergies, reply) ==
  IF reply.kind = "meal" THEN CheckIngredients(mealName, userAllergies, reply)
  ELSE IF reply.kind = "error" THEN TechnicalError(userAllergies)
  ELSE Unverifiable

\* the part of the function after the recipe request came back
CheckAfterLookup(mealName, userAllergies, reply) ==
  IF reply.kind = "meal" THEN CheckIngredients(mealName, userAllergies, reply)
  \* the request failed or the reply could not be processed (inner catch),
  \* or the reply holds no meal
  ELSE Unverifiable

(***************************************************************************)
(* The meal-suggestion helpers.                                            *)
(***************************************************************************)
\* defaultDistribution, in hundredths
defaultDistribution ==
  [breakfast |-> [calories |-> 25, protein |-> 25, carbs |-> 30, fat |-> 25],
   lunch     |-> [calories |-> 35, protein |-> 35, carbs |-> 35, fat |-> 35],
   dinner    |-> [calories |-> 35, protein |-> 35, carbs |-> 30, fat |-> 35],
   snack     |-> [calories |-> 5, protein |-> 5, carbs |-> 5, fat |-> 5]]

\* the power of two p with p < v <= 2p: the doubles just below v are spaced
\* p * 2^-52 apart
RECURSIVE BinadeBelow(_, _)
BinadeBelow(v, p) == IF 2 * p >= v THEN p ELSE BinadeBelow(v, 2 * p)

\* RoundHundredths cutting the fraction off instead of rounding
RoundHundredthsTruncated(daily, pct) == (daily * pct) \div 100

\* Math.round(daily * fraction) for a fraction given in hundredths, one of
\* 0.05, 0.2, 0.25, 0.3, 0.35, 0.5, 0.6, 0.65.  The product is a double:
\* 0.35 is stored as 0.35 - 0.1 * 2^-52, so a product that is k + 0.5 exactly
\* comes out just below it, and is rounded down, when daily * 0.1 * 2^-52
\* exceeds half the spacing of the doubles below k + 0.5; with the other
\* fractions a product of k + 0.5 is rounded up.
RoundHundredths(daily, pct) ==
  LET exact == daily * pct
      k == exact \div 100
  IN IF pct = 35 /\ exact % 100 = 50 /\ daily > 5 * BinadeBelow(k + 1, 1)
       THEN k
       ELSE (exact + 50) \div 100

getMealNutritionRequirements(nutritionData, mealTime) ==
  LET distribution == IF mealTime \in DOMAIN nutritionData.mealDistribution
                        THEN nutritionData.mealDistribution[mealTime]
                        ELSE defaultDistribution[mealTime]
  IN [calories |-> RoundHundredths(nutritionData.dailyCalories, distribution.calories),
      protein  |-> RoundHundredths(nutritionData.dailyProtein, distribution.protein),
      carbs    |-> RoundHundredths(nutritionData.dailyCarbs, distribution.carbs),
      fat      |-> RoundHundredths(nutritionData.dailyFat, distribution.fat)]

\* the default tolerance of findMatchingMeals, in hundredths
Tolerance == 15

\* value >= target * (1 - tolerance) && value <= target * (1 + tolerance), for
\* whole numbers.  The bounds are doubles: 1 - 0.15 is 0.85 - 0.2 * 2^-53 and
\* 1 + 0.15 is 1.15 - 0.4 * 2^-52, so either product comes out at or just below
\* the exact bound.  The minimum then compares as the exact one; the maximum
\* of a target whose exact bound is a whole number v is v itself only when
\* target * 0.4 * 2^-52 is at most half the spacing of the doubles below v.
WithinTolerance(value, target) ==
  /\ value * 100 >= target * (100 - Tolerance)
  /\ \/ value * 100 < target * (100 + Tolerance)
     \/ /\ value * 100 = target * (100 + Tolerance)
        /\ (target = 0 \/ 4 * target <= 5 * BinadeBelow(value, 1))

findMatchingMeals(allMeals, requirements) ==
  SelectSeq(allMeals, LAMBDA meal :
    /\ meal.hasNutrition
    /\ WithinTolerance(meal.nutrition.calories, requirements.calories)
    /\ WithinTolerance(meal.nutrition.protein, requirements.protein)
    /\ WithinTolerance(meal.nutrition.carbs, requirements.carbs)
    /\ WithinTolerance(meal.nutrition.fat, requirements.fat))

\* NameMatchesFood testing one direction only
NameMatchesFoodOneWay(mealNameLower, foods) ==
  \E k \in 1..Len(foods) : Includes(mealNameLower, ToLowerCase(foods[k]))

\* foods.some(food => mealName.includes(food.toLowerCase()) ||
\*                    food.toLowerCase().includes(mealName))
NameMatchesFood(mealNameLower, foods) ==
  \E k \in 1..Len(foods) :
    \/ Includes(mealNameLower, ToLowerCase(foods[k]))
    \/ Includes(ToLowerCase(foods[k]), mealNameLower)

\* SortLikedFirst leaving the list as the loop built it
SortLikedFirstNoSort(meals) == meals

\* safeMatchingMeals.sort(liked first); Array.prototype.sort is stable
SortLikedFirst(meals) ==
  SelectSeq(meals, LAMBDA m : m.isLiked) \o SelectSeq(meals, LAMBDA m : ~m.isLiked)

\* the number of suggestions kept by slice(0, 5)
TopMeals == 5

Slice(list, n) == SubSeq(list, 1, IF Len(list) < n THEN Len(list) ELSE n)

(***************************************************************************)
(* ollama.generateResponse: what becomes of the text the backend returns.  *)
(* A value is the text itself or what JSON.parse makes of it: an object    *)
(* with its members in order, a string, a number or a literal.             *)
(***************************************************************************)
TextValue(text) == [type |-> "string", text |-> text, members |-> <<>>]
NumberValue(text) == [type |-> "number", text |-> text, members |-> <<>>]
LiteralValue(text) == [type |-> "literal", text |-> text, members |-> <<>>]
ObjectValue(members) == [type |-> "object", text |-> "", members |-> members]

\* the character of s at position i, "" past its end
At(s, i) == IF i >= 1 /\ i <= Len(s) THEN CharAt(s, i) ELSE ""

\* the characters a JSON string may hold unescaped, as far as the texts of
\* the model go
JsonStringChars == WordChars \cup SpaceChars \cup {":", ",", "{", "}", ".", "!", "'"}

NoParse == [ok |-> FALSE, value |-> TextValue(""), pos |-> 0]

SkipSpace(s, i) == i + RunLen(s, i, SpaceChars)

\* a string token at position i
ParseString(s, i) ==
  LET n == RunLen(s, i + 1, JsonStringChars)
  IN IF At(s, i) = "\"" /\ At(s, i + 1 + n) = "\""
       THEN [ok |-> TRUE, value |-> TextValue(SubSeq(s, i + 1, i + n)), pos |-> i + n + 2]
       ELSE NoParse

\* a number token at position i: digits, no leading zero
ParseNumber(s, i) ==
  LET n == RunLen(s, i, DigitSet)
  IN IF n >= 1 /\ (n = 1 \/ At(s, i) # "0")
       THEN [ok |-> TRUE, value |-> NumberValue(SubSeq(s, i, i + n - 1)), pos |-> i + n]
       ELSE NoParse

RECURSIVE ParseValue(_, _)
RECURSIVE ParseMembers(_, _, _)

\* the members of an object from position i on, a key expected there
ParseMembers(s, i, members) ==
  LET key == ParseString(s, i)
      colon == SkipSpace(s, key.pos)
      val == ParseValue(s, SkipSpace(s, colon + 1))
      after == SkipSpace(s, val.pos)
      all == Append(members, [key |-> key.value.text, value |-> val.value])
  IN IF ~key.ok \/ At(s, colon) # ":" THEN NoParse
     ELSE IF ~val.ok THEN NoParse
     ELSE IF At(s, after) = "}" THEN [ok |-> TRUE, value |-> ObjectValue(all), pos |-> after + 1]
     ELSE IF At(s, after) = "," THEN ParseMembers(s, SkipSpace(s, after + 1), all)
     ELSE NoParse

\* a value at position i
ParseValue(s, i) ==
  IF At(s, i) = "{"
    THEN IF At(s, SkipSpace(s, i + 1)) = "}"
           THEN [ok |-> TRUE, value |-> ObjectValue(<<>>), pos |-> SkipSpace(s, i + 1) + 1]
           ELSE ParseMembers(s, SkipSpace(s, i + 1), <<>>)
  ELSE IF At(s, i) = "\"" THEN ParseString(s, i)
  ELSE IF At(s, i) \in DigitSet THEN ParseNumber(s, i)
  ELSE IF \E w \in {"true", "false", "null"} : StartsAt(s, i, w)
    THEN LET w == CHOOSE w \in {"true", "false", "null"} : StartsAt(s, i, w)
         IN [ok |-> TRUE, value |-> LiteralValue(w), pos |-> i + Len(w)]
  ELSE NoParse

\* JSON.parse(text): one value, white space around it, nothing else; not ok
\* stands for the SyntaxError
JSONParse(text) ==
  LET val == ParseValue(text, SkipSpace(text, 1))
  IN IF val.ok /\ SkipSpace(text, val.pos) > Len(text) THEN val ELSE NoParse

\* LooksLikeJson testing the text as it came, not trimmed
LooksLikeJsonUntrimmed(result) ==
  /\ At(result, 1) = "{"
  /\ At(result, Len(result)) = "}"

\* result.trim().startsWith('{') && result.trim().endsWith('}')
LooksLikeJson(result) ==
  /\ At(Trim(result), 1) = "{"
  /\ At(Trim(result), Len(Trim(result))) = "}"

\* lines 38-50: the value generateResponse returns for the backend's text
ParsedResult(result) ==
  IF LooksLikeJson(result) /\ JSONParse(result).ok
    THEN JSONParse(result).value
    ELSE TextValue(result)

\* response.data.response of the replies of the backend; Null when the reply
\* has no such field
BackendTexts ==
  { "You can have oatmeal, it fits your plan.",
    "{\"reply\": \"Try oatmeal\", \"calories\": 300}",
    "  {\"plan\": {\"meal\": \"rice\", \"ok\": true}} ",
    "{}",
    "{reply: Try oatmeal}",
    "{\"a\": 1} or {\"b\": 2}",
    "Sure! {\"reply\": \"ok\"}",
    " {not closed ",
    Null }

(***************************************************************************)
(* The state.                                                              *)
(*   rq       the requests to /api/chat, each with the handler's locals    *)
(*            and its position (pc)                                        *)
(*   store    the profile store                                            *)
(*   modules  what the required service modules export                    *)
(*   cache    the module-level cache object of server.js                   *)
(***************************************************************************)
VARIABLES rq, store, modules, cache

vars == <<rq, store, modules, cache>>

\* a prompt handed to ollama.generateResponse
Prompt(kind, userInfo, startWith, cited, meals, allergyWarning, inTry) ==
  [kind |-> kind, userInfo |-> userInfo, startWith |-> startWith, cited |-> cited,
   meals |-> meals, allergyWarning |-> allergyWarning, inTry |-> inTry]

NoRequirements == [calories |-> 0, protein |-> 0, carbs |-> 0, fat |-> 0]

\* a request before it is received
NewRequest ==
  [pc |-> "idle", message |-> "", userId |-> "",
   userData |-> NoProfile, userAllergies |-> <<>>, foodLikes |-> <<>>, foodDislikes |-> <<>>,
   mealName |-> Null, mealTime |-> Null, nutritionMealName |-> Null,
   chkCaller |-> "none", chkMeal |-> Null, chkAllergies |-> <<>>,
   chkReply |-> NoReply, chkResult |-> NoResult, lookups |-> 0,
   nutritionData |-> NoNutritionData,
   mealRequirements |-> NoRequirements, matchingMeals |-> <<>>, idx |-> 0,
   safeMatchingMeals |-> <<>>,
   prompts |-> <<>>, generateErrors |-> 0, result |-> Null, response |-> TextValue(""),
   status |-> 0, sent |-> 0]

\* module.exports of services/firebase.js and of services/wger.js
FirebaseExports == {"getUserData"}
WgerExports ==
  {"getExercisesByMuscleGroup", "getWorkoutPlan", "getFullBodyWorkoutPlan",
   "getExerciseCategories", "muscleGroups"}

\* const cache = { nutritionData: null, lastLoaded: 0 }
InitialCache == [nutritionData |-> Null, lastLoaded |-> 0]

\* the request bodies of the model
Messages ==
  { "",
    " Hello ",
    "Can I eat peanut butter?",
    "is fried rice safe for me",
    "can i eat calories in rice",
    "what should i eat for breakfast",
    "suggest a snack with protein in rice",
    "How many calories in Fried Rice",
    "calories in peanut butter",
    "nutrition facts for sushi",
    "how to do a squat",
    "how to do a press",
    "i want a workout plan",
    "thanks coach" }

Init ==
  /\ rq = [r \in {"r1"} |-> NewRequest]
  /\ store = Users
  /\ modules = [firebase |-> FirebaseExports, wger |-> WgerExports]
  /\ cache = InitialCache

\* Set with the handler's locals held in one place for all requests
SetAll(r, rec) == rq' = [q \in DOMAIN rq |-> rec]

\* the locals of the handler are per call: a step of request r writes r's own
Set(r, rec) == rq' = [rq EXCEPT ![r] = rec]

Shared == <<store, modules, cache>>

\* Respond without the response: the handler returns and nothing is sent
RespondSilently(req, code) == [req EXCEPT !.pc = "done", !.status = code]

\* res.status(code).json(...): a response is sent and the handler returns
Respond(req, code) == [req EXCEPT !.pc = "done", !.status = code, !.sent = @ + 1]

\* ollama.generateResponse(prompt) is called
Generate(req, prompt) == [req EXCEPT !.pc = "generateResponse", !.prompts = Append(@, prompt)]

\* CallCheck after userAllergies.reverse()
CallCheckReversed(req, caller, mealName, userAllergies) ==
  [req EXCEPT !.pc = "checkMealForAllergens", !.chkCaller = caller, !.chkMeal = mealName,
              !.chkAllergies = [k \in 1..Len(userAllergies) |->
                                  userAllergies[Len(userAllergies) + 1 - k]],
              !.chkReply = NoReply, !.chkResult = NoResult]

\* checkMealForAllergens(mealName, userAllergies) is called
CallCheck(req, caller, mealName, userAllergies) ==
  [req EXCEPT !.pc = "checkMealForAllergens", !.chkCaller = caller, !.chkMeal = mealName,
              !.chkAllergies = userAllergies, !.chkReply = NoReply, !.chkResult = NoResult]

(***************************************************************************)
(* /api/chat: the request arrives (lines 503-517).                         *)
(***************************************************************************)
Receive(request, message, userId) ==
  LET req == [request EXCEPT !.message = message, !.userId = userId]
  IN IF message = "" THEN Respond(req, 400)
     ELSE IF userId # "" THEN [req EXCEPT !.pc = "getUserData"]
     ELSE [req EXCEPT !.pc = "greeting"]

ChatReceive(r) ==
  /\ rq[r].pc = "idle"
  /\ \E message \in Messages, userId \in UserIds : Set(r, Receive(rq[r], message, userId))
  /\ UNCHANGED Shared

(***************************************************************************)
(* firebase.getUserData resolves or rejects (lines 518-527).               *)
(***************************************************************************)
ChatGetUserData(r) ==
  /\ rq[r].pc = "getUserData"
  /\ \/ \* the read fails: getUserData rethrows, the handler's catch answers 500
        Set(r, Respond(rq[r], 500))
     \/ LET userData == IF rq[r].userId \in DOMAIN store
                          THEN store[rq[r].userId].profile ELSE NoProfile
            filled == userData.exists /\ userData.hasBodyData
        IN Set(r, [rq[r] EXCEPT !.pc = "greeting", !.userData = userData,
                     !.userAllergies = IF filled THEN userData.allergies ELSE <<>>,
                     !.foodLikes = IF filled THEN userData.foodLikes ELSE <<>>,
                     !.foodDislikes = IF filled THEN userData.foodDislikes ELSE <<>>])
  /\ UNCHANGED Shared

(***************************************************************************)
(* PRIORITY 0: greeting (lines 530-570).                                   *)
(***************************************************************************)
ChatGreeting(r) ==
  /\ rq[r].pc = "greeting"
  /\ Set(r, IF isGreeting(rq[r].message)
              THEN Generate(rq[r], Prompt("greeting", rq[r].userData.exists, "", <<>>, <<>>,
                                          FALSE, FALSE))
              ELSE [rq[r] EXCEPT !.pc = "mealSafety"])
  /\ UNCHANGED Shared

(***************************************************************************)
(* PRIORITY 1: meal safety (lines 573-642).                                *)
(***************************************************************************)
\* the loop of lines 583-589: the first allergen the meal name contains
\* (Null when none), or a throw at a value that is not a string
RECURSIVE DirectAllergenMatch(_, _, _)
DirectAllergenMatch(lowerMealName, userAllergies, k) ==
  IF k > Len(userAllergies) THEN [throws |-> FALSE, allergen |-> Null]
  ELSE IF ~IsString(userAllergies[k]) THEN [throws |-> TRUE, allergen |-> Null]
  ELSE IF Includes(lowerMealName, ToLowerCase(userAllergies[k]))
    THEN [throws |-> FALSE, allergen |-> userAllergies[k]]
  ELSE DirectAllergenMatch(lowerMealName, userAllergies, k + 1)

\* UnsafePrefix with a softer wording
UnsafePrefixSoft(mealName) == "Be careful with " \o mealName \o "."

\* START your response with "NO, you should not eat ${mealName}."
UnsafePrefix(mealName) == "NO, you should not eat " \o mealName \o "."

ChatMealSafety(r) ==
  /\ rq[r].pc = "mealSafety"
  /\ LET req == rq[r]
         mealName == extractMealNameFromSafetyQuestion(req.message)
         direct == DirectAllergenMatch(ToLowerCase(mealName), req.userAllergies, 1)
     IN Set(r,
          IF isMealSafetyQuestion(req.message) /\ Len(req.userAllergies) > 0 /\ Truthy(mealName)
            THEN IF direct.throws THEN Respond([req EXCEPT !.mealName = mealName], 500)
                 ELSE IF Truthy(direct.allergen)
                   THEN Generate([req EXCEPT !.mealName = mealName],
                                 \* the prompt names the user, it has no USER INFO block
                                 Prompt("unsafeDirect", FALSE, UnsafePrefix(mealName),
                                        <<direct.allergen>>, <<>>, FALSE, FALSE))
                 ELSE CallCheck([req EXCEPT !.mealName = mealName], "mealSafety",
                                mealName, req.userAllergies)
            ELSE [req EXCEPT !.pc = "mealSuggestion"])
  /\ UNCHANGED Shared

\* line 618, after the allergen check came back
ChatMealSafetyChecked(r) ==
  /\ rq[r].pc = "checked"
  /\ rq[r].chkCaller = "mealSafety"
  /\ LET req == rq[r]
     IN Set(r, IF req.chkResult.safe = "false"
                 THEN Generate(req, Prompt("unsafeIngredients", FALSE,
                                           UnsafePrefix(req.mealName), req.chkResult.allergens,
                                           <<>>, FALSE, FALSE))
                 ELSE [req EXCEPT !.pc = "mealSuggestion"])
  /\ UNCHANGED Shared

(***************************************************************************)
(* checkMealForAllergens, up to the recipe request (lines 204-233) and     *)
(* from its reply on (lines 235-294).                                      *)
(***************************************************************************)
CheckMealForAllergens(r) ==
  /\ rq[r].pc = "checkMealForAllergens"
  /\ LET req == rq[r]
         early == CheckBeforeLookup(req.chkMeal, req.chkAllergies)
     IN Set(r, IF early # NoResult
                 THEN [req EXCEPT !.pc = "checked", !.chkResult = early]
                 ELSE [req EXCEPT !.pc = "axiosGet", !.lookups = @ + 1])
  /\ UNCHANGED Shared

MealDbReply(r) ==
  /\ rq[r].pc = "axiosGet"
  /\ \E reply \in Replies :
       Set(r, [rq[r] EXCEPT !.pc = "checked", !.chkReply = reply,
                 !.chkResult = CheckAfterLookup(rq[r].chkMeal, rq[r].chkAllergies, reply)])
  /\ UNCHANGED Shared

(***************************************************************************)
(* PRIORITY 1.5: meal suggestion (lines 645-813).                          *)
(***************************************************************************)
ChatMealSuggestion(r) ==
  /\ rq[r].pc = "mealSuggestion"
  /\ LET req == rq[r]
         mealTime == extractMealTime(req.message)
     IN Set(r,
          IF isMealSuggestionQuery(req.message) /\ req.userId # "" /\ Truthy(mealTime)
            THEN IF "admin" \in modules.firebase
                   THEN [req EXCEPT !.pc = "nutritionSnapshot", !.mealTime = mealTime]
                   \* firebase.admin is undefined: the TypeError of line 653 is
                   \* caught at line 808 and the handler goes on
                   ELSE [req EXCEPT !.pc = "nutrition", !.mealTime = mealTime]
            ELSE [req EXCEPT !.pc = "nutrition"])
  /\ UNCHANGED Shared

\* lines 654-678 and 785-807: the snapshot of users/{userId}/nutritionData
SuggestSnapshot(r) ==
  /\ rq[r].pc = "nutritionSnapshot"
  /\ LET req == rq[r]
         nutritionData == IF req.userId \in DOMAIN store
                            THEN store[req.userId].nutritionData ELSE NoNutritionData
         mealRequirements == getMealNutritionRequirements(nutritionData, req.mealTime)
     IN \/ \* the read fails: caught at line 808
           Set(r, [req EXCEPT !.pc = "nutrition"])
        \/ Set(r, IF nutritionData.exists
                    THEN [req EXCEPT !.pc = "loop", !.nutritionData = nutritionData,
                            !.mealRequirements = mealRequirements,
                            !.matchingMeals = findMatchingMeals(Catalog, mealRequirements),
                            !.idx = 1, !.safeMatchingMeals = <<>>]
                    ELSE Generate(req, Prompt("mealNoData", req.userData.exists, "", <<>>, <<>>,
                                              FALSE, TRUE)))
  /\ UNCHANGED Shared

\* the liked flag and the push of lines 696-705
PushMeal(req) ==
  LET meal == req.matchingMeals[req.idx]
      isLiked == NameMatchesFood(ToLowerCase(meal.strMeal), req.userData.foodLikes)
  IN [req EXCEPT !.pc = "loop", !.idx = @ + 1,
        !.safeMatchingMeals = Append(@, [strMeal |-> meal.strMeal, nutrition |-> meal.nutrition,
                                         isLiked |-> isLiked])]

\* one turn of the loop of line 680, up to the allergen check
SuggestLoop(r) ==
  /\ rq[r].pc = "loop"
  /\ rq[r].idx <= Len(rq[r].matchingMeals)
  /\ LET req == rq[r]
         meal == req.matchingMeals[req.idx]
         isDisliked == NameMatchesFood(ToLowerCase(meal.strMeal), req.userData.foodDislikes)
     IN Set(r, IF isDisliked THEN [req EXCEPT !.idx = @ + 1]
               ELSE IF Len(req.userData.allergies) > 0
                 THEN CallCheck(req, "mealSuggestion", meal.strMeal, req.userData.allergies)
               ELSE PushMeal(req))
  /\ UNCHANGED Shared

\* line 693, after the allergen check came back
SuggestLoopChecked(r) ==
  /\ rq[r].pc = "checked"
  /\ rq[r].chkCaller = "mealSuggestion"
  /\ Set(r, IF rq[r].chkResult.safe = "false"
              THEN [rq[r] EXCEPT !.pc = "loop", !.idx = @ + 1]
              ELSE PushMeal(rq[r]))
  /\ UNCHANGED Shared

\* lines 708-784: the sort, the slice and the prompt
SuggestFinish(r) ==
  /\ rq[r].pc = "loop"
  /\ rq[r].idx > Len(rq[r].matchingMeals)
  /\ LET req == rq[r]
         sorted == SortLikedFirst(req.safeMatchingMeals)
         topMeals == Slice(sorted, TopMeals)
     IN Set(r, Generate([req EXCEPT !.safeMatchingMeals = sorted],
                        Prompt(IF Len(topMeals) > 0 THEN "mealSuggestions" ELSE "mealNoMatch",
                               req.userData.exists, "", <<>>,
                               [k \in 1..Len(topMeals) |-> topMeals[k].strMeal], FALSE, TRUE)))
  /\ UNCHANGED Shared

(***************************************************************************)
(* PRIORITY 2: nutrition lookup (lines 816-884).                           *)
(***************************************************************************)
\* nutritionData.filter(item => item.meal.strMeal.toLowerCase().includes(mealName))
\* CatalogMatches falling back on the first entry of the catalog
CatalogMatchesOrFirst(mealName) ==
  LET found == SelectSeq(Catalog, LAMBDA item :
                           Includes(ToLowerCase(item.strMeal), ToLowerCase(mealName)))
  IN IF found = <<>> THEN <<Catalog[1]>> ELSE found

CatalogMatches(mealName) ==
  SelectSeq(Catalog, LAMBDA item : Includes(ToLowerCase(item.strMeal), ToLowerCase(mealName)))

\* allergyWarnings.length > 0, allergyWarnings being the array [] or the
\* object checkMealForAllergens returned, which has no length
AllergyWarningsLengthPositive(isArray, items) == isArray /\ Len(items) > 0

NutritionPrompt(req, isArray) ==
  Prompt("nutrition", req.userData.exists, "", <<>>,
         LET found == CatalogMatches(req.nutritionMealName)
         IN [k \in 1..Len(found) |-> found[k].strMeal],
         AllergyWarningsLengthPositive(isArray, <<>>), FALSE)

\* lines 847-881: the forEach over the matches reads meal.nutrition.calories,
\* a TypeError for a match without a nutrition object (the catch of line 997
\* answers 500); otherwise the prompt is generated
NutritionAnswer(req, isArray) ==
  LET found == CatalogMatches(req.nutritionMealName)
  IN IF \E k \in 1..Len(found) : ~found[k].hasNutrition
       THEN Respond(req, 500)
       ELSE Generate(req, NutritionPrompt(req, isArray))

ChatNutrition(r) ==
  /\ rq[r].pc = "nutrition"
  /\ LET req == rq[r]
         mealName == extractMealName(req.message)
         named == [req EXCEPT !.nutritionMealName = mealName]
     IN Set(r,
          IF isNutritionQuery(req.message) /\ Truthy(mealName)
               /\ Len(CatalogMatches(mealName)) > 0
            THEN IF Len(req.userAllergies) > 0
                   THEN CallCheck(named, "nutrition", CatalogMatches(mealName)[1].strMeal,
                                  req.userAllergies)
                   ELSE NutritionAnswer(named, TRUE)
            ELSE [req EXCEPT !.pc = "exercise"])
  /\ UNCHANGED Shared

\* line 835, after the allergen check came back
ChatNutritionChecked(r) ==
  /\ rq[r].pc = "checked"
  /\ rq[r].chkCaller = "nutrition"
  /\ Set(r, NutritionAnswer(rq[r], FALSE))
  /\ UNCHANGED Shared

(***************************************************************************)
(* PRIORITY 3: exercise question (lines 887-951), with getExerciseInfo     *)
(* (lines 1342-1364).                                                      *)
(***************************************************************************)
ChatExercise(r) ==
  /\ rq[r].pc = "exercise"
  /\ LET req == rq[r]
         exerciseName == extractExerciseName(req.message)
     IN Set(r,
          IF isSpecificExerciseQuery(req.message) /\ Truthy(exerciseName)
            THEN IF "searchExercises" \in modules.wger
                   THEN [req EXCEPT !.pc = "searchExercises"]
                   \* wger.searchExercises is not a function: getExerciseInfo
                   \* catches the TypeError and returns found: false
                   ELSE Generate(req, Prompt("exerciseNotFound", FALSE, "", <<>>, <<>>,
                                             FALSE, FALSE))
            ELSE [req EXCEPT !.pc = "general"])
  /\ UNCHANGED Shared

(***************************************************************************)
(* PRIORITY 4: general query (lines 955-995).                              *)
(***************************************************************************)
ChatGeneral(r) ==
  /\ rq[r].pc = "general"
  /\ Set(r, Generate(rq[r], Prompt("general", rq[r].userData.exists, "", <<>>, <<>>,
                                   FALSE, FALSE)))
  /\ UNCHANGED Shared

(***************************************************************************)
(* ollama.generateResponse resolves or rejects, and what the handler does  *)
(* with it: res.json, the catch of line 808 or the catch of line 997.      *)
(***************************************************************************)
GenerateResponse(r) ==
  /\ rq[r].pc = "generateResponse"
  /\ LET req == rq[r]
         prompt == req.prompts[Len(req.prompts)]
         \* generateResponse throws its Ollama API error
         thrown == [req EXCEPT !.generateErrors = @ + 1]
         failure == IF prompt.inTry THEN [thrown EXCEPT !.pc = "nutrition"]
                                    ELSE Respond(thrown, 500)
     IN \/ \E text \in BackendTexts :
             \* result.trim() of a reply without the field is a TypeError,
             \* caught at line 51 like a failed request
             Set(r, IF IsString(text)
                      THEN Respond([req EXCEPT !.result = text, !.response = ParsedResult(text)], 200)
                      ELSE failure)
        \/ \* axios.post rejects
           Set(r, failure)
  /\ UNCHANGED Shared

\* the handler as the repository runs it
Next ==
  \/ \E r \in DOMAIN rq : ChatReceive(r)
  \/ \E r \in DOMAIN rq : ChatGetUserData(r)
  \/ \E r \in DOMAIN rq : ChatGreeting(r)
  \/ \E r \in DOMAIN rq : ChatMealSafety(r)
  \/ \E r \in DOMAIN rq : ChatMealSafetyChecked(r)
  \/ \E r \in DOMAIN rq : CheckMealForAllergens(r)
  \/ \E r \in DOMAIN rq : MealDbReply(r)
  \/ \E r \in DOMAIN rq : ChatMealSuggestion(r)
  \/ \E r \in DOMAIN rq : ChatNutrition(r)
  \/ \E r \in DOMAIN rq : ChatNutritionChecked(r)
  \/ \E r \in DOMAIN rq : ChatExercise(r)
  \/ \E r \in DOMAIN rq : ChatGeneral(r)
  \/ \E r \in DOMAIN rq : GenerateResponse(r)

Spec == Init /\ [][Next]_vars

\* the handler with every awaited call settling: the event loop runs the
\* continuation of a promise once it is resolved or rejected
SpecFair == Init /\ [][Next]_vars /\ WF_vars(Next)

\* the meal-suggestion block made reachable: the handler run with a firebase
\* module that exports admin beside getUserData
InitSuggest ==
  /\ rq = [r \in {"r1"} |-> NewRequest]
  /\ store = Users
  /\ modules = [firebase |-> FirebaseExports \cup {"admin"}, wger |-> WgerExports]
  /\ cache = InitialCache

NextSuggest ==
  \/ Next
  \/ \E r \in DOMAIN rq : SuggestSnapshot(r)
  \/ \E r \in DOMAIN rq : SuggestLoop(r)
  \/ \E r \in DOMAIN rq : SuggestLoopChecked(r)
  \/ \E r \in DOMAIN rq : SuggestFinish(r)

SpecSuggest == InitSuggest /\ [][NextSuggest]_vars

\* two /api/chat requests in flight at once, their bodies already read; the
\* event loop runs one handler up to its next await, then any handler
ConcurrentMessages ==
  {" Hello ", "is fried rice safe for me", "How many calories in Fried Rice"}

ConcurrentUserIds == {"", "u2"}

InitConcurrent ==
  /\ rq \in [{"r1", "r2"} ->
              {Receive(NewRequest, message, userId) :
                 message \in ConcurrentMessages, userId \in ConcurrentUserIds}]
  /\ store = Users
  /\ modules = [firebase |-> FirebaseExports, wger |-> WgerExports]
  /\ cache = InitialCache

NextConcurrent ==
  \/ \E r \in DOMAIN rq : ChatGetUserData(r)
  \/ \E r \in DOMAIN rq : ChatGreeting(r)
  \/ \E r \in DOMAIN rq : ChatMealSafety(r)
  \/ \E r \in DOMAIN rq : ChatMealSafetyChecked(r)
  \/ \E r \in DOMAIN rq : CheckMealForAllergens(r)
  \/ \E r \in DOMAIN rq : MealDbReply(r)
  \/ \E r \in DOMAIN rq : ChatMealSuggestion(r)
  \/ \E r \in DOMAIN rq : ChatNutrition(r)
  \/ \E r \in DOMAIN rq : ChatNutritionChecked(r)
  \/ \E r \in DOMAIN rq : ChatExercise(r)
  \/ \E r \in DOMAIN rq : ChatGeneral(r)
  \/ \E r \in DOMAIN rq : GenerateResponse(r)

SpecConcurrent == InitConcurrent /\ [][NextConcurrent]_vars

\* checkMealForAllergens called on its own, its arguments drawn from the meal
\* names and the allergy lists below
CheckMeals == {"Peanut Butter Toast", "Fried Rice", "Egg Omelette", "peanut butter"}

CheckAllergyLists ==
  { <<>>, <<"Peanut">>, <<"nut", "peanut", "Eggs">>, <<"soy">>, <<"Eggs", "milk">>,
    <<NotAString>> }

InitCheck ==
  /\ \E mealName \in CheckMeals, userAllergies \in CheckAllergyLists :
       rq = [r \in {"r1"} |-> CallCheck(NewRequest, "none", mealName, userAllergies)]
  /\ store = Users
  /\ modules = [firebase |-> FirebaseExports, wger |-> WgerExports]
  /\ cache = InitialCache

NextCheck ==
  \/ \E r \in DOMAIN rq : CheckMealForAllergens(r)
  \/ \E r \in DOMAIN rq : MealDbReply(r)

SpecCheck == InitCheck /\ [][NextCheck]_vars

(***************************************************************************)
(* getMealNutritionRequirements and findMatchingMeals called on their own, *)
(* as lines 660 and 670 call them, the nutrition data and the meal time    *)
(* drawn from the values below.                                            *)
(***************************************************************************)
GetMealNutritionRequirements(r) ==
  /\ rq[r].pc = "getMealNutritionRequirements"
  /\ Set(r, [rq[r] EXCEPT !.pc = "findMatchingMeals",
               !.mealRequirements = getMealNutritionRequirements(rq[r].nutritionData, rq[r].mealTime)])
  /\ UNCHANGED Shared

FindMatchingMeals(r) ==
  /\ rq[r].pc = "findMatchingMeals"
  /\ Set(r, [rq[r] EXCEPT !.pc = "matched",
               !.matchingMeals = findMatchingMeals(Catalog, rq[r].mealRequirements)])
  /\ UNCHANGED Shared

DailyCalories == {400, 1800, 2000}
DailyProtein == {90, 95, 100}
DailyCarbs == {200, 230}
DailyFat == {50, 60}

MealDistributions ==
  { NoDistribution,
    [breakfast |-> [calories |-> 50, protein |-> 65, carbs |-> 20, fat |-> 60]] }

InitMatch ==
  /\ \E cal \in DailyCalories, pro \in DailyProtein, carb \in DailyCarbs, fat \in DailyFat,
        mealDistribution \in MealDistributions, mealTime \in Range(MealTimeWords) :
       rq = [r \in {"r1"} |->
               [NewRequest EXCEPT !.pc = "getMealNutritionRequirements",
                                  !.nutritionData = NutritionData(cal, pro, carb, fat, mealDistribution),
                                  !.mealTime = mealTime]]
  /\ store = Users
  /\ modules = [firebase |-> FirebaseExports, wger |-> WgerExports]
  /\ cache = InitialCache

NextMatch ==
  \/ \E r \in DOMAIN rq : GetMealNutritionRequirements(r)
  \/ \E r \in DOMAIN rq : FindMatchingMeals(r)

SpecMatch == InitMatch /\ [][NextMatch]_vars

(***************************************************************************)
(* services/wger.js: getWorkoutPlan and getExercisesByMuscleGroup, called  *)
(* on their own as the module exports them.  A call is a record of rq with *)
(* the locals of the two functions.                                        *)
(***************************************************************************)
\* the module-level map of muscle names to the ids of the WGER API
muscleGroups ==
  [chest |-> 4, back |-> 12, shoulders |-> 2, biceps |-> 1, triceps |-> 5,
   legs |-> 10, abs |-> 6, calves |-> 7, glutes |-> 8]

\* the exercises the API knows for a muscle, as it sends them; the third has
\* no description
RawExercises ==
  << [id |-> 1, name |-> "Press", description |-> "<p>Push the bar <b>up</b></p>"],
     [id |-> 2, name |-> "Row", description |-> "Pull the bar"],
     [id |-> 3, name |-> "Fly", description |-> Null] >>

\* description.replace(/<[^>]*>?/gm, ''): every "<" goes with what follows it
\* up to and including the next ">", or up to the end when there is none
RECURSIVE StripTags(_, _, _)
StripTags(text, i, inTag) ==
  IF i > Len(text) THEN ""
  ELSE IF inTag THEN StripTags(text, i + 1, CharAt(text, i) # ">")
  ELSE IF CharAt(text, i) = "<" THEN StripTags(text, i + 1, TRUE)
  ELSE CharAt(text, i) \o StripTags(text, i + 1, FALSE)

formatExerciseData(rawExercise) ==
  [id |-> rawExercise.id, name |-> rawExercise.name,
   description |-> StripTags(rawExercise.description, 1, FALSE)]

\* what wgerClient.get('/exercise/') comes back with, limit being count
WgerReplies(count) ==
  { [kind |-> "error", results |-> <<>>],              \* the request failed
    [kind |-> "nodata", results |-> <<>>],             \* no results field
    [kind |-> "results", results |-> <<>>],
    [kind |-> "results", results |-> Slice(RawExercises, count)] }

\* lines 386-395: the exercises returned for a reply; formatExerciseData
\* throws on an exercise without description and the catch returns []
ExercisesOf(reply) ==
  IF reply.kind = "results" /\ \A k \in 1..Len(reply.results) : IsString(reply.results[k].description)
    THEN [k \in 1..Len(reply.results) |-> formatExerciseData(reply.results[k])]
    ELSE <<>>

\* an argument of getWorkoutPlan: an array, or a single value
ArrayOf(items) == [isArray |-> TRUE, items |-> items]
Single(value) == [isArray |-> FALSE, items |-> <<value>>]

\* the index i as a property name
IndexKey(i) == CharAt("0123456789", i + 1)

\* Object.keys(muscleGroups) inside getWorkoutPlan, where the name is the
\* parameter: the indices of the array, or of the characters of the string
ObjectKeysOfParameter(argument) ==
  IF argument.isArray THEN {IndexKey(i) : i \in 0..(Len(argument.items) - 1)}
  ELSE IF IsString(argument.items[1])
    THEN {IndexKey(i) : i \in 0..(Len(argument.items[1]) - 1)}
  ELSE {}

NoPlan == [group \in {} |-> <<>>]

WorkoutCall(fn, argument, muscleGroup, count) ==
  [pc |-> fn, fn |-> fn, argument |-> argument, exercisesPerMuscle |-> count,
   groups |-> <<>>, idx |-> 0, workoutPlan |-> NoPlan,
   muscleGroup |-> muscleGroup, count |-> count, exercises |-> <<>>,
   fetched |-> NoPlan, status |-> "running"]

\* lines 405-417
GetWorkoutPlan(r) ==
  /\ rq[r].pc = "getWorkoutPlan"
  /\ LET groups == rq[r].argument.items
     IN Set(r, [rq[r] EXCEPT !.pc = "planLoop", !.idx = 1, !.workoutPlan = NoPlan,
                  !.groups = IF Len(groups) = 0 THEN <<"chest", "back", "legs">> ELSE groups])
  /\ UNCHANGED Shared

\* one turn of the loop of line 419, up to the call of line 423
WorkoutPlanGroup(r) ==
  /\ rq[r].pc = "planLoop"
  /\ rq[r].idx <= Len(rq[r].groups)
  /\ LET group == rq[r].groups[rq[r].idx]
     IN Set(r, IF IsString(group) /\ ToLowerCase(group) \in ObjectKeysOfParameter(rq[r].argument)
                 THEN [rq[r] EXCEPT !.pc = "getExercisesByMuscleGroup", !.muscleGroup = group,
                                    !.count = rq[r].exercisesPerMuscle]
                 ELSE [rq[r] EXCEPT !.idx = @ + 1])
  /\ UNCHANGED Shared

\* lines 369-384: the id of the muscle and the request; a name that is not a
\* string or not in the map throws, and the catch of line 391 returns []
GetExercisesByMuscleGroup(r) ==
  /\ rq[r].pc = "getExercisesByMuscleGroup"
  /\ LET muscleGroup == rq[r].muscleGroup
     IN Set(r, IF IsString(muscleGroup) /\ ToLowerCase(muscleGroup) \in DOMAIN muscleGroups
                 THEN [rq[r] EXCEPT !.pc = "wgerGet"]
                 ELSE [rq[r] EXCEPT !.pc = "exercises", !.exercises = <<>>])
  /\ UNCHANGED Shared

\* lines 386-395: the reply of the API
WgerReply(r) ==
  /\ rq[r].pc = "wgerGet"
  /\ \E reply \in WgerReplies(rq[r].count) :
       Set(r, [rq[r] EXCEPT !.pc = "exercises", !.exercises = ExercisesOf(reply),
                 !.fetched = (rq[r].muscleGroup :> reply) @@ @])
  /\ UNCHANGED Shared

\* getExercisesByMuscleGroup returns: to line 424 of the loop, or to the
\* caller of the module
ExercisesReturned(r) ==
  /\ rq[r].pc = "exercises"
  /\ Set(r, IF rq[r].fn = "getWorkoutPlan"
              THEN [rq[r] EXCEPT !.pc = "planLoop", !.idx = @ + 1,
                      !.workoutPlan = (rq[r].muscleGroup :> rq[r].exercises) @@ @]
              ELSE [rq[r] EXCEPT !.pc = "returned", !.status = "resolved"])
  /\ UNCHANGED Shared

\* line 434
WorkoutPlanReturn(r) ==
  /\ rq[r].pc = "planLoop"
  /\ rq[r].idx > Len(rq[r].groups)
  /\ Set(r, [rq[r] EXCEPT !.pc = "returned", !.status = "resolved"])
  /\ UNCHANGED Shared

\* the arguments of the calls
WorkoutArguments ==
  { ArrayOf(<<>>), ArrayOf(<<"chest">>), ArrayOf(<<"chest", "back">>),
    ArrayOf(<<"Chest", "wings", "legs">>), ArrayOf(<<"0", "chest">>),
    ArrayOf(<<"abs", NotAString, "1">>), ArrayOf(<<"back", "biceps">>),
    Single("legs"), Single("0"), Single(NotAString) }

ExerciseCounts == {1, 2, 3}

InitWorkout ==
  /\ \/ \E argument \in WorkoutArguments, count \in ExerciseCounts :
          rq = [r \in {"w1"} |-> WorkoutCall("getWorkoutPlan", argument, Null, count)]
     \/ \E muscleGroup \in {"chest", "Back", "wings", NotAString}, count \in ExerciseCounts :
          rq = [r \in {"w1"} |->
                  WorkoutCall("getExercisesByMuscleGroup", ArrayOf(<<>>), muscleGroup, count)]
  /\ store = Users
  /\ modules = [firebase |-> FirebaseExports, wger |-> WgerExports]
  /\ cache = InitialCache

NextWorkout ==
  \/ \E r \in DOMAIN rq : GetWorkoutPlan(r)
  \/ \E r \in DOMAIN rq : WorkoutPlanGroup(r)
  \/ \E r \in DOMAIN rq : GetExercisesByMuscleGroup(r)
  \/ \E r \in DOMAIN rq : WgerReply(r)
  \/ \E r \in DOMAIN rq : ExercisesReturned(r)
  \/ \E r \in DOMAIN rq : WorkoutPlanReturn(r)

SpecWorkout == InitWorkout /\ [][NextWorkout]_vars

(***************************************************************************)
(* getWorkoutRecommendations (server.js, lines 1129-1289).                 *)
(***************************************************************************)
AllMuscleIds == <<1, 2, 4, 5, 6, 7, 8, 9, 10, 11, 12, 13, 14, 15>>

\* lines 1154-1172, keyed by the extracted muscle group
muscleMapping ==
  [g \in {"full body", "upper body", "lower body", "core", "arms", "chest", "back",
          "shoulders", "legs", "glutes", "abs", "biceps", "triceps", "forearms", "quads",
          "hamstrings", "calves"} |->
     CASE g = "full body" -> AllMuscleIds
       [] g = "upper body" -> <<1, 2, 4, 5, 6, 8, 9, 10, 11, 12, 13>>
       [] g = "lower body" -> <<7, 8, 10, 14, 15>>
       [] g = "core" -> <<6, 14>>
       [] g = "arms" -> <<1, 5, 13>>
       [] g = "chest" -> <<4, 9>>
       [] g = "back" -> <<3, 12>>
       [] g = "shoulders" -> <<2, 9>>
       [] g = "legs" -> <<7, 8, 10, 15>>
       [] g = "glutes" -> <<8>>
       [] g = "abs" -> <<6>>
       [] g = "biceps" -> <<1>>
       [] g = "triceps" -> <<5>>
       [] g = "forearms" -> <<13>>
       [] g = "quads" -> <<10>>
       [] g = "hamstrings" -> <<11>>
       [] g = "calves" -> <<7>>]

\* lines 1177-1188, keyed by the groups the user selected
muscleMappingFromUser ==
  [g \in {"Full body", "Upper body", "Lower body", "Core", "Arms", "Chest", "Back",
          "Shoulders", "Legs", "Glutes"} |->
     CASE g = "Full body" -> AllMuscleIds
       [] g = "Upper body" -> <<1, 2, 4, 5, 6, 8, 9, 10, 11, 12, 13>>
       [] g = "Lower body" -> <<7, 8, 10, 14, 15>>
       [] g = "Core" -> <<6, 14>>
       [] g = "Arms" -> <<1, 5, 13>>
       [] g = "Chest" -> <<4, 9>>
       [] g = "Back" -> <<3, 12>>
       [] g = "Shoulders" -> <<2, 9>>
       [] g = "Legs" -> <<7, 8, 10, 15>>
       [] g = "Glutes" -> <<8>>]

\* lines 1210-1220
equipmentMapping ==
  [e \in {"Bodyweight only", "Dumbbells", "Barbell", "Machines", "Resistance bands",
          "Kettlebells", "TRX/Suspension", "Medicine ball", "Stability ball"} |->
     CASE e = "Bodyweight only" -> <<7>>
       [] e = "Dumbbells" -> <<3>>
       [] e = "Barbell" -> <<1>>
       [] e = "Machines" -> <<4, 5, 6, 10>>
       [] e = "Resistance bands" -> <<9>>
       [] e = "Kettlebells" -> <<10>>
       [] e = "TRX/Suspension" -> <<6>>
       [] e = "Medicine ball" -> <<2>>
       [] e = "Stability ball" -> <<8>>]

\* list.forEach(x => { acc = [...acc, ...(mapping[x] || [])] }): a new array
\* each turn, the list itself only read
RECURSIVE Combine(_, _, _)
Combine(list, mapping, k) ==
  IF k > Len(list) THEN <<>>
  ELSE (IF list[k] \in DOMAIN mapping THEN mapping[list[k]] ELSE <<>>)
         \o Combine(list, mapping, k + 1)

\* lines 1150-1201
TargetMuscleGroups(workoutData, muscleGroup) ==
  LET chosen ==
        IF Truthy(muscleGroup)
          THEN IF muscleGroup \in DOMAIN muscleMapping THEN muscleMapping[muscleGroup] ELSE <<>>
        ELSE IF Len(workoutData.muscleGroups) > 0
          THEN Unique(Combine(workoutData.muscleGroups, muscleMappingFromUser, 1))
        ELSE <<>>
  IN IF Len(chosen) = 0 THEN AllMuscleIds ELSE chosen

\* lines 1204-1233
AvailableEquipment(workoutData) ==
  LET chosen == IF Len(workoutData.equipment) > 0
                  THEN Unique(Combine(workoutData.equipment, equipmentMapping, 1))
                  ELSE <<>>
  IN IF Len(chosen) = 0 THEN <<7>> ELSE chosen

\* lines 1145-1147
DifficultyLevel(workoutData) ==
  IF workoutData.fitnessLevel = "Advanced" THEN 3
  ELSE IF workoutData.fitnessLevel = "Intermediate" THEN 2
  ELSE 1

\* what firebase.getUserData(userId) resolves to: snapshot.val() or null
NoUserData ==
  [exists |-> FALSE,
   value |-> [workoutData |-> NoWorkoutData, profile |-> NoProfile,
              nutritionData |-> NoNutritionData]]

UserDataOf(userId) ==
  IF userId \in DOMAIN store THEN [exists |-> TRUE, value |-> store[userId]] ELSE NoUserData

NoRecommendations == [hasData |-> FALSE, error |-> FALSE, userData |-> NoUserData]

\* getWorkoutRecommendations(userId, muscleGroup) is called
RecommendationsCall(userId, muscleGroup) ==
  [pc |-> "getWorkoutRecommendations", fn |-> "getWorkoutRecommendations",
   userId |-> userId, muscleGroup |-> muscleGroup, userData |-> NoUserData,
   difficultyLevel |-> 1, targetMuscleGroups |-> <<>>, availableEquipment |-> <<>>,
   returned |-> NoRecommendations]

\* getUserData rejects or resolves, and the function runs to its return: the
\* call of wger.getExercises (line 1235), which the module does not export,
\* is a TypeError the catch of line 1281 turns into { hasData: false, error }
GetWorkoutRecommendations(r) ==
  /\ rq[r].pc = "getWorkoutRecommendations"
  /\ \/ Set(r, [rq[r] EXCEPT !.pc = "returned",
                   !.returned = [NoRecommendations EXCEPT !.error = TRUE]])
     \/ LET userData == UserDataOf(rq[r].userId)
            workoutData == userData.value.workoutData
            fetched == [rq[r] EXCEPT !.userData = userData]
        IN Set(r,
             IF ~userData.exists \/ ~workoutData.exists
               THEN [fetched EXCEPT !.pc = "returned",
                       !.returned = [NoRecommendations EXCEPT !.userData = userData]]
             ELSE LET locals ==
                        [fetched EXCEPT
                           !.difficultyLevel = DifficultyLevel(workoutData),
                           !.targetMuscleGroups =
                              TargetMuscleGroups(workoutData, rq[r].muscleGroup),
                           !.availableEquipment = AvailableEquipment(workoutData)]
                  IN IF "getExercises" \in modules.wger
                       THEN [locals EXCEPT !.pc = "getExercises"]
                       ELSE [locals EXCEPT !.pc = "returned",
                               !.returned = [NoRecommendations EXCEPT !.error = TRUE]])
  /\ UNCHANGED Shared

\* the muscle group of a call: none, or what extractMuscleGroup yields
RecommendationGroups == {Null, "arms", "legs", "full body", "neck"}

\* the two readers of the profile: a /api/chat request or a call of
\* getWorkoutRecommendations
InitProfile ==
  /\ \/ rq = [r \in {"r1"} |-> NewRequest]
     \/ \E userId \in UserIds \ {""}, muscleGroup \in RecommendationGroups :
          rq = [r \in {"r1"} |-> RecommendationsCall(userId, muscleGroup)]
  /\ store = Users
  /\ modules = [firebase |-> FirebaseExports, wger |-> WgerExports]
  /\ cache = InitialCache

NextProfile ==
  \/ Next
  \/ \E r \in DOMAIN rq : GetWorkoutRecommendations(r)

SpecProfile == InitProfile /\ [][NextProfile]_vars

(***************************************************************************)
(* The classifiers and extractors called on their own: a message is drawn, *)
(* written as it is, in capitals or with a question mark after it, the six *)
(* classifiers are applied to it, then the extractor of the group it fell  *)
(* in.                                                                     *)
(***************************************************************************)
UpperChar(c) ==
  IF c \in LowerSet
    THEN CharAt(UpperLetters, CHOOSE i \in 1..Len(LowerLetters) : CharAt(LowerLetters, i) = c)
    ELSE c

RECURSIVE UpperFrom(_, _)
UpperFrom(s, i) ==
  IF i > Len(s) THEN "" ELSE UpperChar(CharAt(s, i)) \o UpperFrom(s, i + 1)

ToUpperCase(s) == UpperFrom(s, 1)

\* the seven phrasings of a meal-safety question, around the meal name
SafetyPhrasings == <<
  [before |-> "can i eat ", after |-> ""],
  [before |-> "is ", after |-> " safe for me"],
  [before |-> "should i avoid ", after |-> ""],
  [before |-> "am i allergic to ", after |-> ""],
  [before |-> "will ", after |-> " cause an allergic reaction"],
  [before |-> "is it safe for me to eat ", after |-> ""],
  [before |-> "is ", after |-> " ok with my allergies"] >>

PayloadNames == {"rice", "peanut butter"}

SafetyMessages ==
  {SafetyPhrasings[p].before \o name \o SafetyPhrasings[p].after :
     p \in 1..Len(SafetyPhrasings), name \in PayloadNames}

ClassifyMessages ==
  SafetyMessages \cup
  { "hello", "good morning", "what's up",
    "what should i eat for dinner",
    "what should i eat for dinner after a big breakfast",
    "suggest a snack",
    "suggest a lunch instead of breakfast",
    "recommend some food for lunch",
    "dinner idea",
    "what's a good snack before dinner",
    "what lunch can i have",
    "how many calories in rice",
    "nutrition facts for sushi",
    "how to do a squat",
    "workout plan",
    "best exercises for arms",
    "thanks coach" }

Variants == {"asWritten", "capitals", "questionMark"}

VariantOf(message, variant) ==
  CASE variant = "asWritten" -> message
    [] variant = "capitals" -> ToUpperCase(message)
    [] variant = "questionMark" -> message \o "?"

\* the six classifiers applied to one text
Intents(text) ==
  [greeting |-> isGreeting(text), mealSafety |-> isMealSafetyQuestion(text),
   mealSuggestion |-> isMealSuggestionQuery(text), nutrition |-> isNutritionQuery(text),
   exercise |-> isSpecificExerciseQuery(text), workout |-> isWorkoutQuery(text)]

Unset == "<unset>"

ClassifyCall(message) ==
  [pc |-> "message", fn |-> "classify", message |-> message, variant |-> "asWritten",
   text |-> message, intents |-> Intents(message), mealName |-> Unset, mealTime |-> Unset]

Classify(r) ==
  /\ rq[r].pc = "message"
  /\ \E variant \in Variants :
       LET text == VariantOf(rq[r].message, variant)
       IN Set(r, [rq[r] EXCEPT !.pc = "classified", !.variant = variant, !.text = text,
                    !.intents = Intents(text)])
  /\ UNCHANGED Shared

\* line 577: called on a message isMealSafetyQuestion accepted
ExtractMealNameFromSafetyQuestion(r) ==
  /\ rq[r].pc = "classified"
  /\ rq[r].intents.mealSafety
  /\ rq[r].mealName = Unset
  /\ Set(r, [rq[r] EXCEPT !.mealName = extractMealNameFromSafetyQuestion(rq[r].text)])
  /\ UNCHANGED Shared

\* line 648: called on a message isMealSuggestionQuery accepted
ExtractMealTime(r) ==
  /\ rq[r].pc = "classified"
  /\ rq[r].intents.mealSuggestion
  /\ rq[r].mealTime = Unset
  /\ Set(r, [rq[r] EXCEPT !.mealTime = extractMealTime(rq[r].text)])
  /\ UNCHANGED Shared

InitClassify ==
  /\ \E message \in ClassifyMessages : rq = [r \in {"c1"} |-> ClassifyCall(message)]
  /\ store = Users
  /\ modules = [firebase |-> FirebaseExports, wger |-> WgerExports]
  /\ cache = InitialCache

NextClassify ==
  \/ \E r \in DOMAIN rq : Classify(r)
  \/ \E r \in DOMAIN rq : ExtractMealNameFromSafetyQuestion(r)
  \/ \E r \in DOMAIN rq : ExtractMealTime(r)

SpecClassify == InitClassify /\ [][NextClassify]_vars

(***************************************************************************)
(* Notions the properties are stated in.                                   *)
(***************************************************************************)
AllStrings(list) == \A k \in 1..Len(list) : IsString(list[k])

\* the allergens of a list that are case-insensitive substrings of a name
NameAllergens(mealName, userAllergies) ==
  {a \in Range(userAllergies) : Includes(ToLowerCase(mealName), ToLowerCase(a))}

\* the non-blank ingredients of a recipe reply
ReplyIngredients(reply) ==
  {reply.ingredients[k] : k \in {j \in 1..Len(reply.ingredients) : Trim(reply.ingredients[j]) # ""}}

\* the allergens of a list related to an ingredient of the reply by
\* case-insensitive containment, one way or the other
ReplyAllergens(reply, userAllergies) ==
  {a \in Range(userAllergies) :
     \E g \in ReplyIngredients(reply) :
       \/ Includes(ToLowerCase(g), ToLowerCase(a))
       \/ Includes(ToLowerCase(a), ToLowerCase(g))}

NoDuplicates(list) == \A j, k \in 1..Len(list) : list[j] = list[k] => j = k

\* the intent a prompt belongs to
IntentOf(kind) ==
  CASE kind = "greeting" -> "Greeting"
    [] kind \in {"unsafeDirect", "unsafeIngredients"} -> "MealSafety"
    [] kind \in {"mealSuggestions", "mealNoMatch", "mealNoData"} -> "MealSuggestion"
    [] kind = "nutrition" -> "NutritionLookup"
    [] kind \in {"exercise", "exerciseNotFound"} -> "ExerciseQuery"
    [] kind = "general" -> "GeneralQuery"

\* the first intent, in the documented order, whose pattern group matches
FirstMatchingIntent(message, userAllergies) ==
  IF isGreeting(message) THEN "Greeting"
  ELSE IF isMealSafetyQuestion(message) /\ Len(userAllergies) > 0 THEN "MealSafety"
  ELSE IF isMealSuggestionQuery(message) THEN "MealSuggestion"
  ELSE IF isNutritionQuery(message) THEN "NutritionLookup"
  ELSE IF isSpecificExerciseQuery(message) THEN "ExerciseQuery"
  ELSE IF isWorkoutQuery(message) THEN "WorkoutRequest"
  ELSE "GeneralQuery"

(***************************************************************************)
(* C1: every prompt of a request belongs to the first intent, in the order *)
(* Greeting, MealSafety (with an allergy), MealSuggestion, NutritionLookup,*)
(* ExerciseQuery, WorkoutRequest, GeneralQuery, whose patterns match the   *)
(* message.                                                                *)
(***************************************************************************)
C1_FirstMatchHandles ==
  \A r \in DOMAIN rq : \A k \in 1..Len(rq[r].prompts) :
    IntentOf(rq[r].prompts[k].kind) = FirstMatchingIntent(rq[r].message, rq[r].userAllergies)

(***************************************************************************)
(* C2: for a user with an allergy, a message in a meal-safety phrasing     *)
(* only ever gets a prompt of the MealSafety path, whatever the allergen   *)
(* check returned.                                                         *)
(***************************************************************************)
C2_SafetyNeverFallsThrough ==
  \A r \in DOMAIN rq : \A k \in 1..Len(rq[r].prompts) :
    (Len(rq[r].userAllergies) > 0 /\ isMealSafetyQuestion(rq[r].message))
      => IntentOf(rq[r].prompts[k].kind) = "MealSafety"

C4_FailClosed ==
  \A r \in DOMAIN rq :
    (rq[r].pc = "checked" /\ Len(rq[r].chkAllergies) > 0) =>
      /\ rq[r].chkResult.safe \in {"true", "false", "null"}
      /\ rq[r].chkResult.safe = "true" =>
           /\ rq[r].chkReply.kind = "meal"
           /\ ReplyAllergens(rq[r].chkReply, rq[r].chkAllergies) = {}
      /\ (rq[r].chkReply.kind # "meal" \/ ~AllStrings(rq[r].chkAllergies))
           => rq[r].chkResult.safe \in {"false", "null"}

C4_Witness ==
  \E r \in DOMAIN rq :
    /\ rq[r].pc = "checked"
    /\ rq[r].chkReply.kind = "nomeals"
    /\ rq[r].chkResult.safe = "null"

C6_EmptyListSafe ==
  \A r \in DOMAIN rq :
    Len(rq[r].chkAllergies) = 0 =>
      /\ rq[r].pc \in {"checkMealForAllergens", "checked"}
      /\ rq[r].lookups = 0
      /\ rq[r].chkReply = NoReply
      /\ rq[r].pc = "checked" =>
           /\ rq[r].chkResult.safe = "true"
           /\ rq[r].chkResult.allergens = <<>>

C6_Witness ==
  \E r \in DOMAIN rq :
    /\ rq[r].pc = "checked"
    /\ Len(rq[r].chkAllergies) = 0
    /\ rq[r].chkResult.safe = "true"

(***************************************************************************)
(* C7, as claimed: whatever goes wrong during a check (a value that is not *)
(* a string, a failed recipe request, a reply that cannot be processed),   *)
(* the answer is unsafe.                                                   *)
(***************************************************************************)
C7_AnyErrorUnsafe ==
  \A r \in DOMAIN rq :
    (rq[r].pc = "checked" /\ Len(rq[r].chkAllergies) > 0
       /\ (~AllStrings(rq[r].chkAllergies) \/ rq[r].chkReply.kind \in {"error", "malformed"}))
      => rq[r].chkResult.safe = "false"

(***************************************************************************)
(* C7, amended: an error raised before the recipe request (in the          *)
(* direct-name check) ends unsafe with the whole allergen list; an error   *)
(* raised by the recipe request or while its reply is processed ends       *)
(* unverifiable; neither ends safe.                                        *)
(***************************************************************************)
C7_ErrorOutcome ==
  \A r \in DOMAIN rq :
    (rq[r].pc = "checked" /\ Len(rq[r].chkAllergies) > 0) =>
      /\ ~AllStrings(rq[r].chkAllergies) =>
           /\ rq[r].chkResult.safe = "false"
           /\ rq[r].chkResult.allergens = rq[r].chkAllergies
           /\ rq[r].chkReply = NoReply
      /\ rq[r].chkReply.kind \in {"error", "malformed"} =>
           /\ rq[r].chkResult.safe = "null"
           /\ rq[r].chkResult.allergens = <<>>

C7_Witness ==
  \E r \in DOMAIN rq :
    /\ rq[r].pc = "checked"
    /\ ~AllStrings(rq[r].chkAllergies)
    /\ rq[r].chkResult.message = "technical error"

(***************************************************************************)
(* C8: when no allergen is a substring of the meal name, the recipe        *)
(* request is issued, and when it fails or comes back without a meal the   *)
(* answer is unverifiable: safe is null, no allergen is listed and the     *)
(* message is the manual-check warning.                                    *)
(***************************************************************************)
C8_Unverifiable ==
  \A r \in DOMAIN rq :
    (rq[r].pc = "checked" /\ Len(rq[r].chkAllergies) > 0 /\ AllStrings(rq[r].chkAllergies)
       /\ NameAllergens(rq[r].chkMeal, rq[r].chkAllergies) = {}) =>
      /\ rq[r].chkReply # NoReply
      /\ rq[r].chkReply.kind \in {"error", "nomeals"} =>
           /\ rq[r].chkResult.safe = "null"
           /\ rq[r].chkResult.allergens = <<>>
           /\ rq[r].chkResult.message = "could not verify"

C8_Witness ==
  \E r \in DOMAIN rq :
    /\ rq[r].pc = "checked"
    /\ rq[r].chkReply.kind = "error"
    /\ rq[r].chkResult.safe = "null"

(***************************************************************************)
(* C9: when the recipe request comes back with a meal, the answer is       *)
(* unsafe exactly when an ingredient and an allergen are related by        *)
(* case-insensitive containment, one way or the other; the allergens       *)
(* listed are then the matched ones, each once; otherwise the answer is    *)
(* safe.                                                                   *)
(***************************************************************************)
C9_IngredientMatch ==
  \A r \in DOMAIN rq :
    (rq[r].pc = "checked" /\ rq[r].chkReply.kind = "meal") =>
      LET hits == ReplyAllergens(rq[r].chkReply, rq[r].chkAllergies) IN
      /\ rq[r].chkResult.safe = (IF hits # {} THEN "false" ELSE "true")
      /\ Range(rq[r].chkResult.allergens) = hits
      /\ NoDuplicates(rq[r].chkResult.allergens)

\* an allergen matched by two ingredients, and an allergen that contains one
C9_Witness ==
  \E r \in DOMAIN rq :
    /\ rq[r].pc = "checked"
    /\ rq[r].chkReply.kind = "meal"
    /\ rq[r].chkResult.safe = "false"
    /\ Len(rq[r].chkResult.ingredients) > Len(rq[r].chkResult.allergens)

(***************************************************************************)
(* C10: a request with a userId whose profile is present and whose message *)
(* is a meal-suggestion phrasing and matches no higher intent gets a       *)
(* meal-suggestion prompt, for the meal time the message names.            *)
(***************************************************************************)
C10_MealSuggestionPath ==
  \A r \in DOMAIN rq :
    (Len(rq[r].prompts) > 0 /\ rq[r].userId # "" /\ rq[r].userData.exists
       /\ isMealSuggestionQuery(rq[r].message) /\ ~isGreeting(rq[r].message)
       /\ ~(isMealSafetyQuestion(rq[r].message) /\ Len(rq[r].userAllergies) > 0))
      => /\ IntentOf(rq[r].prompts[1].kind) = "MealSuggestion"
         /\ rq[r].mealTime = extractMealTime(rq[r].message)

(***************************************************************************)
(* C11: findMatchingMeals returns the catalog meals that have nutrition    *)
(* facts and whose calories, protein, carbs and fat all lie within         *)
(* [target * 0.85, target * 1.15], bounds included, in catalog order, and  *)
(* no other meal.                                                          *)
(***************************************************************************)
ExactlyWithin(value, target) ==
  /\ value * 100 >= target * (100 - Tolerance)
  /\ value * 100 <= target * (100 + Tolerance)

C11_MatchingMeals ==
  \A r \in DOMAIN rq :
    rq[r].pc = "matched" =>
      rq[r].matchingMeals =
        SelectSeq(Catalog, LAMBDA meal :
          /\ meal.hasNutrition
          /\ ExactlyWithin(meal.nutrition.calories, rq[r].mealRequirements.calories)
          /\ ExactlyWithin(meal.nutrition.protein, rq[r].mealRequirements.protein)
          /\ ExactlyWithin(meal.nutrition.carbs, rq[r].mealRequirements.carbs)
          /\ ExactlyWithin(meal.nutrition.fat, rq[r].mealRequirements.fat))

(***************************************************************************)
(* C12: in the meal-suggestion loop a candidate whose name contains a      *)
(* disliked-food token, or is contained in one, compared in lower case, is *)
(* never added to the suggested meals nor listed in a suggestion prompt,   *)
(* and it is dropped before the allergen check: no check is called and no  *)
(* recipe request issued for it.                                           *)
(***************************************************************************)
\* a food token of the list and the name contain one another, in lower case
MatchesToken(name, foods) ==
  \E food \in Range(foods) :
    \/ Includes(ToLowerCase(name), ToLowerCase(food))
    \/ Includes(ToLowerCase(food), ToLowerCase(name))

C12_DislikedNeverSuggested ==
  [][\A r \in DOMAIN rq :
       LET req == rq[r]
           next == rq'[r]
           dislikes == req.userData.foodDislikes
       IN /\ \A k \in 1..Len(next.safeMatchingMeals) :
               ~MatchesToken(next.safeMatchingMeals[k].strMeal, dislikes)
          /\ \A k \in 1..Len(next.prompts) :
               next.prompts[k].kind = "mealSuggestions" =>
                 \A j \in 1..Len(next.prompts[k].meals) :
                   ~MatchesToken(next.prompts[k].meals[j], dislikes)
          /\ (next.pc = "checkMealForAllergens" /\ next.chkCaller = "mealSuggestion")
               => ~MatchesToken(next.chkMeal, dislikes)
          /\ (req.pc = "loop" /\ req.idx <= Len(req.matchingMeals)
                /\ MatchesToken(req.matchingMeals[req.idx].strMeal, dislikes))
               => /\ next.pc = "loop"
                  /\ next.idx = req.idx + 1
                  /\ next.lookups = req.lookups
                  /\ next.safeMatchingMeals = req.safeMatchingMeals]_vars

\* the loop has passed a candidate whose name is contained in a disliked token
C12_Witness ==
  \E r \in DOMAIN rq :
    /\ rq[r].pc = "loop"
    /\ \E k \in 1..(rq[r].idx - 1) :
         /\ MatchesToken(rq[r].matchingMeals[k].strMeal, rq[r].userData.foodDislikes)
         /\ \A food \in Range(rq[r].userData.foodDislikes) :
              ~Includes(ToLowerCase(rq[r].matchingMeals[k].strMeal), ToLowerCase(food))
    /\ Len(rq[r].safeMatchingMeals) > 0

(***************************************************************************)
(* C13: once the suggestions are sorted, no meal that is not liked stands  *)
(* before a liked one, two meals of the same group stand in catalog order, *)
(* and the prompt lists the first 5 of that order (all of them when there  *)
(* are fewer).                                                             *)
(***************************************************************************)
CatalogIndex(name) == CHOOSE k \in 1..Len(Catalog) : Catalog[k].strMeal = name

C13_LikedFirstTopFive ==
  \A r \in DOMAIN rq :
    (Len(rq[r].prompts) > 0 /\ rq[r].prompts[1].kind \in {"mealSuggestions", "mealNoMatch"}) =>
      LET meals == rq[r].safeMatchingMeals
          liked(k) == MatchesToken(meals[k].strMeal, rq[r].userData.foodLikes)
          shown == rq[r].prompts[1].meals
      IN /\ \A i, j \in 1..Len(meals) :
              i < j => /\ ~(~liked(i) /\ liked(j))
                       /\ liked(i) = liked(j)
                            => CatalogIndex(meals[i].strMeal) < CatalogIndex(meals[j].strMeal)
         /\ Len(shown) = (IF Len(meals) < 5 THEN Len(meals) ELSE 5)
         /\ \A k \in 1..Len(shown) : shown[k] = meals[k].strMeal

\* six suggestions, liked and not liked, of which the prompt lists five
C13_Witness ==
  \E r \in DOMAIN rq :
    /\ Len(rq[r].prompts) > 0
    /\ rq[r].prompts[1].kind = "mealSuggestions"
    /\ Len(rq[r].safeMatchingMeals) = 6
    /\ Len(rq[r].prompts[1].meals) = 5
    /\ Cardinality({k \in 1..6 : MatchesToken(rq[r].safeMatchingMeals[k].strMeal,
                                               rq[r].userData.foodLikes)}) = 3

(***************************************************************************)
(* C14: each of the four targets getMealNutritionRequirements returns is a *)
(* whole number nearest to the daily total times the fraction of the meal  *)
(* time, the fraction taken from the user's mealDistribution when it has   *)
(* the meal time and from the default table otherwise; dailyCalories 2000  *)
(* with the default breakfast fraction gives 500; and the call leaves the  *)
(* store and the module-level cache as they were.                          *)
(***************************************************************************)
\* the fractions the claim names, in hundredths
FractionsFor(nutritionData, mealTime) ==
  IF mealTime \in DOMAIN nutritionData.mealDistribution
    THEN nutritionData.mealDistribution[mealTime]
    ELSE CASE mealTime = "breakfast" -> [calories |-> 25, protein |-> 25, carbs |-> 30, fat |-> 25]
           [] mealTime = "lunch" -> [calories |-> 35, protein |-> 35, carbs |-> 35, fat |-> 35]
           [] mealTime = "dinner" -> [calories |-> 35, protein |-> 35, carbs |-> 30, fat |-> 35]
           [] mealTime = "snack" -> [calories |-> 5, protein |-> 5, carbs |-> 5, fat |-> 5]

\* whole is a whole number nearest to daily * pct / 100
NearestWhole(whole, daily, pct) ==
  /\ whole * 100 - daily * pct <= 50
  /\ daily * pct - whole * 100 <= 50

C14_MealRequirements ==
  \A r \in DOMAIN rq :
    /\ store = Users
    /\ cache = InitialCache
    /\ rq[r].pc \in {"findMatchingMeals", "matched"} =>
         LET data == rq[r].nutritionData
             fractions == FractionsFor(data, rq[r].mealTime)
             targets == rq[r].mealRequirements
         IN /\ NearestWhole(targets.calories, data.dailyCalories, fractions.calories)
            /\ NearestWhole(targets.protein, data.dailyProtein, fractions.protein)
            /\ NearestWhole(targets.carbs, data.dailyCarbs, fractions.carbs)
            /\ NearestWhole(targets.fat, data.dailyFat, fractions.fat)
            /\ (data.dailyCalories = 2000 /\ rq[r].mealTime = "breakfast"
                  /\ "breakfast" \notin DOMAIN data.mealDistribution)
                 => targets.calories = 500

\* the override table is used where it has the meal time, the default beside it
C14_Witness ==
  \E r \in DOMAIN rq :
    /\ rq[r].pc = "matched"
    /\ rq[r].mealTime = "breakfast"
    /\ "breakfast" \in DOMAIN rq[r].nutritionData.mealDistribution
    /\ rq[r].nutritionData.dailyCalories = 1800
    /\ rq[r].nutritionData.dailyProtein = 95
    /\ rq[r].mealRequirements = [calories |-> 900, protein |-> 62, carbs |-> 40, fat |-> 30]

(***************************************************************************)
(* C15: when the MealSafety path finds the meal unsafe, by an allergen in  *)
(* its name or by an allergen check that came back unsafe (ingredients or  *)
(* a technical error), the next thing the handler does is send a prompt    *)
(* that tells the model to start with "NO, you should not eat " and the    *)
(* meal name extracted from the message.                                   *)
(***************************************************************************)
FoundUnsafe(req) ==
  \/ /\ req.pc = "mealSafety"
     /\ isMealSafetyQuestion(req.message)
     /\ Len(req.userAllergies) > 0
     /\ AllStrings(req.userAllergies)
     /\ Truthy(extractMealNameFromSafetyQuestion(req.message))
     /\ NameAllergens(extractMealNameFromSafetyQuestion(req.message), req.userAllergies) # {}
  \/ /\ req.pc = "checked"
     /\ req.chkCaller = "mealSafety"
     /\ req.chkResult.safe = "false"

C15_UnsafePrefix ==
  [][\A r \in DOMAIN rq :
       FoundUnsafe(rq[r]) =>
         LET sent == rq'[r].prompts
             mealName == extractMealNameFromSafetyQuestion(rq[r].message)
         IN /\ rq'[r].pc = "generateResponse"
            /\ Len(sent) = Len(rq[r].prompts) + 1
            /\ StartsAt(sent[Len(sent)].startWith, 1, "NO, you should not eat " \o mealName)]_vars

\* unsafe by the ingredients of the recipe
C15_Witness ==
  \E r \in DOMAIN rq :
    /\ rq[r].pc = "generateResponse"
    /\ rq[r].chkCaller = "mealSafety"
    /\ rq[r].chkReply.kind = "meal"
    /\ rq[r].chkResult.safe = "false"
    /\ rq[r].prompts[1].startWith = "NO, you should not eat fried rice."

(***************************************************************************)
(* C16: a nutrition prompt carries the allergy warning block, and the      *)
(* instruction to start with an allergy warning, exactly when the allergen *)
(* check of the looked-up meal came back unsafe or unverifiable.           *)
(***************************************************************************)
C16_AllergyWarningBlock ==
  \A r \in DOMAIN rq : \A k \in 1..Len(rq[r].prompts) :
    rq[r].prompts[k].kind = "nutrition" =>
      (rq[r].prompts[k].allergyWarning
         <=> (rq[r].chkCaller = "nutrition" /\ rq[r].chkResult.safe \in {"false", "null"}))

(***************************************************************************)
(* C17: whatever the path, a prompt sent to the generation backend carries *)
(* the user-info block exactly when a profile was fetched for the request. *)
(***************************************************************************)
C17_UserInfoBlock ==
  \A r \in DOMAIN rq : \A k \in 1..Len(rq[r].prompts) :
    rq[r].prompts[k].userInfo <=> rq[r].userData.exists

(***************************************************************************)
(* C18: the value generateResponse returns is the parsed object when the   *)
(* backend's text, trimmed, starts with "{" and ends with "}" and parses   *)
(* as JSON; the text itself, unchanged, when it has that shape and does    *)
(* not parse, which raises no error; and the text itself, unchanged, when  *)
(* it does not have that shape.                                            *)
(***************************************************************************)
BraceShaped(text) ==
  LET trimmed == Trim(text)
  IN Len(trimmed) > 0 /\ CharAt(trimmed, 1) = "{" /\ CharAt(trimmed, Len(trimmed)) = "}"

C18_ParsedOrRaw ==
  \A r \in DOMAIN rq :
    rq[r].result # Null =>
      /\ rq[r].status = 200
      /\ IF BraceShaped(rq[r].result) /\ JSONParse(rq[r].result).ok
           THEN /\ rq[r].response = JSONParse(rq[r].result).value
                /\ rq[r].response.type = "object"
           ELSE rq[r].response = TextValue(rq[r].result)

\* a braced text that does not parse, answered as it came
C18_Witness ==
  \E r \in DOMAIN rq :
    /\ rq[r].result # Null
    /\ BraceShaped(rq[r].result)
    /\ rq[r].response = TextValue(rq[r].result)
    /\ rq[r].status = 200

KnownMuscleGroup(group) == IsString(group) /\ ToLowerCase(group) \in DOMAIN muscleGroups

C20_WorkoutPlanPerGroup ==
  \A r \in DOMAIN rq :
    (rq[r].fn = "getWorkoutPlan" /\ rq[r].pc = "returned") =>
      /\ rq[r].status = "resolved"
      /\ \A group \in Range(rq[r].argument.items) :
           KnownMuscleGroup(group) =>
             /\ group \in DOMAIN rq[r].fetched
             /\ rq[r].fetched[group].kind = "results" =>
                  /\ group \in DOMAIN rq[r].workoutPlan
                  /\ Len(rq[r].workoutPlan[group]) <= Len(rq[r].fetched[group].results)
             /\ rq[r].fetched[group].kind # "results" =>
                  (group \in DOMAIN rq[r].workoutPlan => rq[r].workoutPlan[group] = <<>>)

(***************************************************************************)
(* C21: with two /api/chat requests interleaved in any order, no step of a *)
(* request writes shared state (the profile store, the module exports and  *)
(* the cache object stay as they were) or another request's locals, and    *)
(* the prompts of a request are determined by its own message, its own     *)
(* fetched profile and the replies its own external calls received.        *)
(***************************************************************************)
\* what a request received from outside, and how far it has run
OwnInputs(req) ==
  <<req.message, req.userId, req.userData, req.chkCaller, req.chkReply, req.lookups,
    req.generateErrors, req.result, req.pc>>

C21_NoSharedState ==
  /\ [](\A r, q \in DOMAIN rq :
          OwnInputs(rq[r]) = OwnInputs(rq[q]) => rq[r].prompts = rq[q].prompts)
  /\ [][/\ store' = store /\ modules' = modules /\ cache' = cache
        /\ cache = InitialCache
        /\ \A r, q \in DOMAIN rq : (r # q /\ rq'[r] # rq[r]) => rq'[q] = rq[q]]_vars

\* one request was answered from its prompt while another, with another
\* message, is still waiting for its allergen lookup
C21_Witness ==
  \E r, q \in DOMAIN rq :
    /\ r # q
    /\ rq[r].pc = "done" /\ rq[r].status = 200 /\ Len(rq[r].prompts) = 1
    /\ rq[q].pc = "checkMealForAllergens" /\ rq[q].message # rq[r].message
    /\ cache = InitialCache

(***************************************************************************)
(* C22: an absent record is never fatal.  A user id without a stored       *)
(* profile leaves the request with no allergies, likes or dislikes and is  *)
(* never the reason of an error answer; a nutrition question whose meal    *)
(* name no catalog entry contains goes on to the later intents; an         *)
(* exercise question whose lookup finds nothing is answered from the       *)
(* not-in-database prompt; and a request whose prompt was generated        *)
(* without failure is answered 200 with the generated text.                *)
(***************************************************************************)
\* no entry of the catalog has the name inside its own
AbsentFromCatalog(mealName) ==
  \A k \in 1..Len(Catalog) :
    ~Includes(ToLowerCase(Catalog[k].strMeal), ToLowerCase(mealName))

C22_AbsentNeverFatal ==
  /\ [](\A r \in DOMAIN rq :
          (rq[r].pc = "done" /\ Len(rq[r].prompts) > 0 /\ rq[r].generateErrors = 0)
            => (rq[r].status = 200 /\ rq[r].sent = 1 /\ IsString(rq[r].result)))
  /\ [][\A r \in DOMAIN rq :
          LET old == rq[r]
              new == rq'[r]
              mealName == extractMealName(old.message)
          IN /\ (old.pc = "getUserData" /\ old.userId \notin DOMAIN store
                    /\ new.pc # "done")
                  => (new.pc = "greeting" /\ ~new.userData.exists
                      /\ new.userAllergies = <<>> /\ new.foodLikes = <<>>
                      /\ new.foodDislikes = <<>>)
             /\ (old.userId \notin DOMAIN store /\ old.pc # "done" /\ new.pc = "done"
                    /\ new.status # 200)
                  => \/ old.pc = "idle" /\ new.status = 400
                     \/ old.pc = "getUserData" /\ new.status = 500
                     \/ old.pc = "generateResponse" /\ new.generateErrors = 1
             /\ (old.pc = "nutrition" /\ new.pc # "nutrition"
                    /\ isNutritionQuery(old.message) /\ Truthy(mealName)
                    /\ AbsentFromCatalog(mealName))
                  => (new.pc = "exercise" /\ new.prompts = old.prompts)
             /\ (old.pc = "exercise" /\ new.pc # "exercise"
                    /\ isSpecificExerciseQuery(old.message)
                    /\ Truthy(extractExerciseName(old.message)))
                  => (new.pc = "generateResponse"
                      /\ new.prompts[Len(new.prompts)].kind = "exerciseNotFound")]_vars

\* a user id without a profile asked for the nutrition of a meal the catalog
\* does not hold, and was answered from the general prompt
C22_Witness ==
  \E r \in DOMAIN rq :
    /\ rq[r].pc = "done" /\ rq[r].status = 200
    /\ rq[r].userId # "" /\ rq[r].userId \notin DOMAIN store
    /\ isNutritionQuery(rq[r].message) /\ Truthy(extractMealName(rq[r].message))
    /\ AbsentFromCatalog(extractMealName(rq[r].message))
    /\ Len(rq[r].prompts) = 1 /\ rq[r].prompts[1].kind = "general"

(***************************************************************************)
(* C23: a request whose message matches a workout-request phrasing and no  *)
(* intent of higher priority is not answered from the prompt of the        *)
(* general catch-all.                                                      *)
(***************************************************************************)
C23_WorkoutRequestPath ==
  \A r \in DOMAIN rq :
    FirstMatchingIntent(rq[r].message, rq[r].userAllergies) = "WorkoutRequest"
      => \A k \in 1..Len(rq[r].prompts) : IntentOf(rq[r].prompts[k].kind) # "GeneralQuery"

(***************************************************************************)
(* C24: the fetched profile is never written.  The profile store never     *)
(* changes; what a /api/chat request holds of the profile (the object and  *)
(* the allergy, like and dislike lists taken from it, also as passed to    *)
(* the allergen check) and what a call of getWorkoutRecommendations holds  *)
(* and returns of it (with the muscle-group and equipment lists) are what  *)
(* the store holds.                                                        *)
(***************************************************************************)
C24_ProfileNeverMutated ==
  /\ [](\A r \in DOMAIN rq :
          IF "fn" \in DOMAIN rq[r]
            THEN /\ rq[r].userData.exists => rq[r].userData.value = Users[rq[r].userId]
                 /\ rq[r].returned.userData.exists
                      => rq[r].returned.userData.value = Users[rq[r].userId]
            ELSE rq[r].userData.exists
                   => LET profile == Users[rq[r].userId].profile
                      IN /\ rq[r].userData = profile
                         /\ rq[r].userAllergies = profile.allergies
                         /\ rq[r].foodLikes = profile.foodLikes
                         /\ rq[r].foodDislikes = profile.foodDislikes
                         /\ rq[r].chkCaller # "none"
                              => rq[r].chkAllergies = profile.allergies)
  /\ [][store' = store]_vars

\* getWorkoutRecommendations combined the selected groups and equipment of a
\* user, overlapping ids dropped, and returned
C24_Witness ==
  \E r \in DOMAIN rq :
    /\ "fn" \in DOMAIN rq[r] /\ rq[r].pc = "returned"
    /\ rq[r].userData.exists
    /\ rq[r].userData.value.workoutData.muscleGroups = <<"Legs", "Glutes">>
    /\ rq[r].targetMuscleGroups = <<7, 8, 10, 15>>
    /\ rq[r].availableEquipment = <<4, 5, 6, 10>>
    /\ store = Users

(***************************************************************************)
(* C25: the six classifiers (greeting included) give a message written in  *)
(* capitals, and a message followed by "?", the answers they give the      *)
(* message as it was written.                                              *)
(***************************************************************************)
C25_CaseAndQuestionMark ==
  \A r \in DOMAIN rq :
    rq[r].pc = "classified" => rq[r].intents = Intents(rq[r].message)

(***************************************************************************)
(* C26: for a message in one of the seven meal-safety phrasings,           *)
(* extractMealNameFromSafetyQuestion returns the meal name standing at the *)
(* place that phrasing has for it.                                         *)
(***************************************************************************)
\* the text in small letters, a question mark at its end dropped
Plain(text) ==
  LET lower == ToLowerCase(text)
  IN IF Len(lower) > 0 /\ CharAt(lower, Len(lower)) = "?"
       THEN SubSeq(lower, 1, Len(lower) - 1) ELSE lower

C26_PayloadOfPhrasing ==
  \A r \in DOMAIN rq :
    rq[r].mealName # Unset
      => \A p \in 1..Len(SafetyPhrasings), name \in PayloadNames :
           Plain(rq[r].text) = SafetyPhrasings[p].before \o name \o SafetyPhrasings[p].after
             => rq[r].mealName = name

(***************************************************************************)
(* C28: for a message a meal-suggestion pattern matches, extractMealTime   *)
(* returns a meal time, and it is the meal time the first matching pattern *)
(* captured, whatever other meal-time words the message holds.             *)
(***************************************************************************)
\* the meal time in the captures of the first meal-suggestion pattern that
\* matches the text
CapturedMealTime(text) ==
  LET lower == ToLowerCase(text)
      p == CHOOSE p \in 1..Len(mealSuggestionPatterns) :
             /\ Test(mealSuggestionPatterns[p], lower)
             /\ \A q \in 1..(p - 1) : ~Test(mealSuggestionPatterns[q], lower)
  IN CHOOSE word \in Range(Match(mealSuggestionPatterns[p], lower).caps) :
       word \in Range(MealTimeWords)

C28_CapturedMealTime ==
  \A r \in DOMAIN rq :
    rq[r].mealTime # Unset
      => (rq[r].mealTime # Null /\ rq[r].mealTime = CapturedMealTime(rq[r].text))

(***************************************************************************)
(* C27: a request gets exactly one response.  No request has sent more     *)
(* than one; a handler that has returned has sent one; and, every awaited  *)
(* call resolving or rejecting, a request that was received ends with its  *)
(* one response sent.                                                      *)
(***************************************************************************)
C27_ExactlyOneResponse ==
  /\ [](\A r \in DOMAIN rq :
          /\ rq[r].sent <= 1
          /\ rq[r].pc = "done" <=> rq[r].sent = 1)
  /\ \A r \in {"r1"} :
       (rq[r].pc # "idle") ~> (rq[r].pc = "done" /\ rq[r].sent = 1)

\* a request that went through the allergen lookup and a generation was
\* answered once
C27_Witness ==
  \E r \in DOMAIN rq :
    /\ rq[r].pc = "done" /\ rq[r].sent = 1 /\ rq[r].status = 200
    /\ rq[r].message # "" /\ rq[r].lookups > 0 /\ Len(rq[r].prompts) = 1

(***************************************************************************)
(* C29: a request answered as an exercise question whose exercise name is  *)
(* the name of a record of the exercise catalog is answered from the       *)
(* prompt that embeds the record, not from the not-in-database prompt.     *)
(***************************************************************************)
\* the exercise catalog holds a record whose name holds the asked name
ExerciseCatalogHolds(exerciseName) ==
  /\ Truthy(exerciseName)
  /\ \E k \in 1..Len(RawExercises) :
       Includes(ToLowerCase(RawExercises[k].name), ToLowerCase(exerciseName))

C29_ExerciseRecordEmbedded ==
  \A r \in DOMAIN rq :
    \A k \in 1..Len(rq[r].prompts) :
      (IntentOf(rq[r].prompts[k].kind) = "ExerciseQuery"
         /\ ExerciseCatalogHolds(extractExerciseName(rq[r].message)))
        => rq[r].prompts[k].kind = "exercise"

(***************************************************************************)
(* C30: the fractions of the distribution a call of                        *)
(* getMealNutritionRequirements read from (the table of the user where it  *)
(* has the meal time, the default table where not), summed over breakfast, *)
(* lunch, dinner and snack, are at most 1 for calories, protein, carbs and *)
(* fat.                                                                    *)
(***************************************************************************)
\* the sum over the four meal times, in hundredths
FractionSum(nutritionData, axis) ==
  FractionsFor(nutritionData, "breakfast")[axis] + FractionsFor(nutritionData, "lunch")[axis]
    + FractionsFor(nutritionData, "dinner")[axis] + FractionsFor(nutritionData, "snack")[axis]

C30_FractionsAtMostOne ==
  \A r \in DOMAIN rq :
    rq[r].pc # "getMealNutritionRequirements"
      => \A axis \in {"calories", "protein", "carbs", "fat"} :
           FractionSum(rq[r].nutritionData, axis) <= 100

====
